---- MODULE Spec2Model ----
(***************************************************************************)
(* A model of the pen-tool library: the path engine (PathManager,          *)
(* HandleManager, src/core, known here through its specification and its    *)
(* callers) and the PenTool controller of src/tools/penTool.ts.             *)
(*                                                                         *)
(* Coordinates are integers.  Distances are compared through their squares, *)
(* so every threshold test of the code is exact.  Where the code normalises *)
(* a vector (a square root) the model uses the integer square root and      *)
(* truncating division, which is exact on the axis-aligned and 3-4-5        *)
(* vectors the bounded inputs contain.                                      *)
(***************************************************************************)
EXTENDS Integers, Sequences, FiniteSets, TLC

(***************************************************************************)
(* Bounds of the model.                                                    *)
(***************************************************************************)
\* the largest identifier (paths and anchors together) handed out
MaxId == 5

\* the paths a collection holds at most where imports are repeated
MaxPaths == 3

(***************************************************************************)
(* Program constants (PenTool options, penTool.ts:46-50, and the click      *)
(* distance of onMouseUp, penTool.ts:236).                                  *)
(***************************************************************************)
snapAngle == 45
closePathThreshold == 10
defaultHandleLength == 50
clickDistance == 2

(***************************************************************************)
(* Geometric primitives (PointUtils).                                      *)
(***************************************************************************)
Pt(px, py) == [x |-> px, y |-> py]

Origin == Pt(0, 0)

add(a, b) == Pt(a.x + b.x, a.y + b.y)

subtract(a, b) == Pt(a.x - b.x, a.y - b.y)

negate(v) == Pt(0 - v.x, 0 - v.y)

\* the square of PointUtils.distance(a, b)
distanceSq(a, b) == (a.x - b.x) * (a.x - b.x) + (a.y - b.y) * (a.y - b.y)

lengthSq(v) == v.x * v.x + v.y * v.y

\* distance(a, b) <= d, for d >= 0
within(a, b, d) == distanceSq(a, b) <= d * d

RECURSIVE SqrtIter(_, _)
SqrtIter(n, r) ==
    LET next == (r + n \div r) \div 2
    IN  IF next >= r THEN r ELSE SqrtIter(n, next)

\* floor of the square root
ISqrt(n) == IF n <= 0 THEN 0 ELSE SqrtIter(n, n)

\* the length of a vector (Math.sqrt(x*x + y*y)), truncated
length(v) == ISqrt(lengthSq(v))

\* division that truncates towards zero, so that scaling commutes with negation
TruncDiv(a, b) == IF a >= 0 THEN a \div b ELSE 0 - ((0 - a) \div b)

\* v / |v| * len for a non-zero v
scaleTo(v, len) == Pt(TruncDiv(v.x * len, length(v)), TruncDiv(v.y * len, length(v)))

(***************************************************************************)
(* Data model (core/types).  A nullable reference is a sequence of length   *)
(* 0 (null) or 1.                                                          *)
(***************************************************************************)
Null == << >>

Some(v) == << v >>

Mirrored == "mirrored"

AngleLocked == "angle-locked"

Independent == "independent"

MirrorModes == {Mirrored, AngleLocked, Independent}

Handle(v, vis) == [position |-> v, visible |-> vis]

AnchorPoint(i, pos, hIn, hOut, mode) ==
    [id |-> i, position |-> pos, handleIn |-> hIn, handleOut |-> hOut,
     mirrorMode |-> mode, selected |-> FALSE]

VectorPath(i) == [id |-> i, anchorPoints |-> << >>, closed |-> FALSE]

\* is the handle there and visible
shown(h) == h # Null /\ h[1].visible

(***************************************************************************)
(* HandleManager (core/handles).                                           *)
(***************************************************************************)
getAbsoluteHandlePosition(anchor, isOutHandle) ==
    LET h == IF isOutHandle THEN anchor.handleOut ELSE anchor.handleIn
    IN  IF shown(h) THEN Some(add(anchor.position, h[1].position)) ELSE Null

\* a faulty propagation: Mirrored adjusts the other handle only when it exists
propagateExistingOnly(mode, moved, other) ==
    CASE mode = Mirrored ->
           IF other = Null THEN Null ELSE Some(Handle(negate(moved), TRUE))
      [] mode = AngleLocked ->
           IF other = Null
           THEN Some(Handle(negate(moved), TRUE))
           ELSE IF moved = Origin
                THEN other
                ELSE Some([other[1] EXCEPT
                             !.position = scaleTo(negate(moved), length(other[1].position))])
      [] OTHER -> other

\* a faulty propagation: AngleLocked takes the moved handle's length as well
propagateLength(mode, moved, other) ==
    CASE mode \in {Mirrored, AngleLocked} -> Some(Handle(negate(moved), TRUE))
      [] OTHER -> other

\* a faulty propagation: Independent anchors are mirrored like the others
propagateAlways(mode, moved, other) ==
    CASE mode = AngleLocked /\ other # Null /\ moved = Origin -> other
      [] mode = AngleLocked /\ other # Null ->
           Some([other[1] EXCEPT
                    !.position = scaleTo(negate(moved), length(other[1].position))])
      [] OTHER -> Some(Handle(negate(moved), TRUE))

\* the other handle of the pair after the moved one was set to `moved`
propagate(mode, moved, other) ==
    CASE mode = Mirrored -> Some(Handle(negate(moved), TRUE))
      [] mode = AngleLocked ->
           IF other = Null
           THEN Some(Handle(negate(moved), TRUE))
           ELSE IF moved = Origin
                THEN other
                ELSE Some([other[1] EXCEPT
                             !.position = scaleTo(negate(moved), length(other[1].position))])
      [] OTHER -> other

updateHandle(anchor, isOutHandle, absolutePosition) ==
    LET moved == subtract(absolutePosition, anchor.position)
    IN  IF isOutHandle
        THEN [anchor EXCEPT !.handleOut = Some(Handle(moved, TRUE)),
                            !.handleIn = propagate(anchor.mirrorMode, moved, anchor.handleIn)]
        ELSE [anchor EXCEPT !.handleIn = Some(Handle(moved, TRUE)),
                            !.handleOut = propagate(anchor.mirrorMode, moved, anchor.handleOut)]

\* the tangent from previousPosition to nextPosition, scaled to len; the unit
\* vector along the x-axis when the two positions coincide
tangent(previousPosition, nextPosition, len) ==
    LET d == subtract(nextPosition, previousPosition)
    IN  IF d = Origin THEN Pt(len, 0) ELSE scaleTo(d, len)

createDefaultHandles(anchor, previousPosition, nextPosition, len) ==
    LET tv == tangent(previousPosition, nextPosition, len)
    IN  [anchor EXCEPT !.handleIn = Some(Handle(negate(tv), TRUE)),
                       !.handleOut = Some(Handle(tv, TRUE)),
                       !.mirrorMode = Mirrored]

(***************************************************************************)
(* PathManager (core/path): operations on one path.                        *)
(***************************************************************************)
\* addAnchorPoint(path, position, handleIn, handleOut): appends; a supplied
\* handle vector becomes the visible handleOut; mirrorMode Mirrored by default
addAnchorPoint(path, newId, position, handleIn, handleOut) ==
    LET hOut == IF handleOut = Null THEN Null ELSE Some(Handle(handleOut[1], TRUE))
        hIn == IF handleIn = Null THEN Null ELSE Some(Handle(handleIn[1], TRUE))
    IN  [path EXCEPT !.anchorPoints =
             Append(@, AnchorPoint(newId, position, hIn, hOut, Mirrored))]

\* the sequence s with e placed so that it becomes element index + 1 (0-based index)
InsertAt(s, index, e) ==
    SubSeq(s, 1, index) \o << e >> \o SubSeq(s, index + 1, Len(s))

RemoveAt(s, index) == SubSeq(s, 1, index) \o SubSeq(s, index + 2, Len(s))

\* what a mutation returns: the path after it and the failure it reports
Outcome(path, error) == [path |-> path, error |-> error]

\* insertAnchorPoint(path, index, position): a bare anchor at index, InvalidIndex
\* outside [0, anchorPoints.length]
insertAnchorPoint(path, newId, index, position) ==
    IF index < 0 \/ index > Len(path.anchorPoints)
    THEN Outcome(path, "InvalidIndex")
    ELSE Outcome([path EXCEPT !.anchorPoints =
                     InsertAt(@, index, AnchorPoint(newId, position, Null, Null, Mirrored))],
                 "none")

\* removal of the anchor at index: InvalidIndex outside [0, anchorPoints.length);
\* a closed path keeps the three anchors closePath asks for
removeAnchorPoint(path, index) ==
    IF index < 0 \/ index >= Len(path.anchorPoints)
    THEN Outcome(path, "InvalidIndex")
    ELSE IF path.closed /\ Len(path.anchorPoints) <= 3
         THEN Outcome(path, "InvalidOperation")
         ELSE Outcome([path EXCEPT !.anchorPoints = RemoveAt(@, index)], "none")

\* a faulty closePath: two anchors are enough
closePathOfTwo(path) ==
    IF Len(path.anchorPoints) < 2
    THEN Outcome(path, "InvalidOperation")
    ELSE Outcome([path EXCEPT !.closed = TRUE], "none")

\* a faulty closePath: no check of the number of anchors
closePathUnchecked(path) == Outcome([path EXCEPT !.closed = TRUE], "none")

\* closePath(path): closed = true; InvalidOperation below three anchors
closePath(path) ==
    IF Len(path.anchorPoints) < 3
    THEN Outcome(path, "InvalidOperation")
    ELSE Outcome([path EXCEPT !.closed = TRUE], "none")

\* a faulty Segment: a handle that exists counts as a control point even when
\* it is not visible
SegmentOfAnyHandle(startPoint, endPoint) ==
    LET c1 == IF startPoint.handleOut = Null THEN Null
              ELSE Some(add(startPoint.position, startPoint.handleOut[1].position))
        c2 == IF endPoint.handleIn = Null THEN Null
              ELSE Some(add(endPoint.position, endPoint.handleIn[1].position))
    IN  [type |-> IF c1 # Null \/ c2 # Null THEN "cubic" ELSE "line",
         startPoint |-> startPoint, endPoint |-> endPoint,
         controlPoint1 |-> c1, controlPoint2 |-> c2]

\* the segment between two anchors: its control points are the absolute
\* positions of the visible handles facing it
Segment(startPoint, endPoint) ==
    LET c1 == getAbsoluteHandlePosition(startPoint, TRUE)
        c2 == getAbsoluteHandlePosition(endPoint, FALSE)
    IN  [type |-> IF c1 # Null \/ c2 # Null THEN "cubic" ELSE "line",
         startPoint |-> startPoint, endPoint |-> endPoint,
         controlPoint1 |-> c1, controlPoint2 |-> c2]

\* a faulty getSegments: the closing segment of a closed path is left out
getSegmentsOpen(path) ==
    LET a == path.anchorPoints
        n == Len(a)
    IN  IF n < 2 THEN << >> ELSE [i \in 1..(n - 1) |-> Segment(a[i], a[i + 1])]

\* getSegments(path): the consecutive pairs, and the closing segment of a closed path
getSegments(path) ==
    LET a == path.anchorPoints
        n == Len(a)
    IN  IF n < 2
        THEN << >>
        ELSE [i \in 1..(IF path.closed THEN n ELSE n - 1) |->
                 Segment(a[i], a[(i % n) + 1])]

(***************************************************************************)
(* Bezier evaluation.  A parameter t is the fraction num / den.            *)
(***************************************************************************)
Frac(n, d) == [num |-> n, den |-> d]

Bernstein(p0, c1, c2, p3, t) ==
    LET u == t.den - t.num
        v == t.num
    IN  TruncDiv(u * u * u * p0 + 3 * u * u * v * c1 + 3 * u * v * v * c2 + v * v * v * p3,
                 t.den * t.den * t.den)

cubicBezierPoint(p0, c1, c2, p3, t) ==
    Pt(Bernstein(p0.x, c1.x, c2.x, p3.x, t), Bernstein(p0.y, c1.y, c2.y, p3.y, t))

\* (1 - t) a + t b
lerp(a, b, t) ==
    Pt(TruncDiv((t.den - t.num) * a.x + t.num * b.x, t.den),
       TruncDiv((t.den - t.num) * a.y + t.num * b.y, t.den))

(***************************************************************************)
(* The path-language codec of PathManager (importFromSVG).  Path data is    *)
(* taken after tokenisation: a sequence of command letters, numbers and     *)
(* tokens that are no number ("bad").                                      *)
(***************************************************************************)
Cmd(c) == [type |-> "cmd", cmd |-> c, num |-> 0]

Num(n) == [type |-> "num", cmd |-> "", num |-> n]

BadNum == [type |-> "bad", cmd |-> "", num |-> 0]

\* the numbers one coordinate group of a command takes; -1 for an unknown letter
ArgCount(c) ==
    CASE c \in {"M", "m", "L", "l"} -> 2
      [] c \in {"H", "h", "V", "v"} -> 1
      [] c \in {"C", "c"} -> 6
      [] c \in {"S", "s"} -> 4
      [] c \in {"Z", "z"} -> 0
      [] OTHER -> 0 - 1

IsRelative(c) == c \in {"m", "l", "h", "v", "c", "s", "z"}

\* the command further coordinate groups repeat
Repeated(c) == IF c = "M" THEN "L" ELSE IF c = "m" THEN "l" ELSE c

ParseState(anchors, current, start, closed, lastControl) ==
    [anchors |-> anchors, current |-> current, start |-> start, closed |-> closed,
     lastControl |-> lastControl]

\* a straight segment to target (or the first point of the path)
lineTo(st, newId, target) ==
    ParseState(Append(st.anchors, AnchorPoint(newId, target, Null, Null, Mirrored)),
               target, IF st.anchors = << >> THEN target ELSE st.start, st.closed, Null)

\* a cubic segment to target with the absolute control points c1 and c2
curveTo(st, newId, c1, c2, target) ==
    LET n == Len(st.anchors)
        from == st.anchors[n]
    IN  ParseState(
            Append([st.anchors EXCEPT ![n].handleOut =
                        Some(Handle(subtract(c1, from.position), TRUE))],
                   AnchorPoint(newId, target,
                               Some(Handle(subtract(c2, target), TRUE)), Null, Mirrored)),
            target, st.start, st.closed, Some(c2))

\* one command with its coordinate group
applyCommand(st, newId, c, a) ==
    LET base == IF IsRelative(c) THEN st.current ELSE Origin
    IN  CASE c \in {"M", "m", "L", "l"} -> lineTo(st, newId, add(base, Pt(a[1], a[2])))
          [] c \in {"H", "h"} -> lineTo(st, newId, Pt(base.x + a[1], st.current.y))
          [] c \in {"V", "v"} -> lineTo(st, newId, Pt(st.current.x, base.y + a[1]))
          [] c \in {"C", "c"} ->
               curveTo(st, newId, add(base, Pt(a[1], a[2])), add(base, Pt(a[3], a[4])),
                       add(base, Pt(a[5], a[6])))
          [] OTHER ->
               \* S, s: the first control point reflects the previous second one
               curveTo(st, newId,
                       IF st.lastControl = Null
                       THEN st.current
                       ELSE subtract(add(st.current, st.current), st.lastControl[1]),
                       add(base, Pt(a[1], a[2])), add(base, Pt(a[3], a[4])))

\* the anchors of the path that Z closes: a last point that coincides with the
\* first is the first anchor itself (no closing segment is implied), and the
\* segment that led to it ends at the first anchor
closing(st) ==
    LET n == Len(st.anchors)
    IN  IF n > 1 /\ st.anchors[n].position = st.anchors[1].position
        THEN [SubSeq(st.anchors, 1, n - 1) EXCEPT ![1].handleIn = st.anchors[n].handleIn]
        ELSE st.anchors

Parsed(error, at, st) == [error |-> error, at |-> at, st |-> st]

RECURSIVE parseFrom(_, _, _, _, _)
\* the tokens from position i on, c the command in force ("" when there is none)
parseFrom(tokens, i, c, st, pathId) ==
    IF i > Len(tokens)
    THEN Parsed("none", 0, st)
    ELSE LET tok == tokens[i]
             letter == IF tok.type = "cmd" THEN tok.cmd ELSE Repeated(c)
             first == IF tok.type = "cmd" THEN i + 1 ELSE i
             n == ArgCount(letter)
             short == {k \in first..(first + n - 1) :
                          k > Len(tokens) \/ tokens[k].type # "num"}
         IN  IF tok.type = "bad" \/ letter = "" \/ n < 0
             THEN \* no number, coordinates without a command, an unknown letter
                  Parsed("MalformedPathData", i, st)
             ELSE IF (st.anchors = << >>) # (letter \in {"M", "m"})
             THEN \* path data starts with its one moveto
                  Parsed("MalformedPathData", i, st)
             ELSE IF letter \in {"Z", "z"}
             THEN IF Len(closing(st)) < 3
                  THEN Parsed("InvalidOperation", i, st)
                  ELSE parseFrom(tokens, i + 1, "",
                                 [st EXCEPT !.anchors = closing(st), !.closed = TRUE,
                                            !.current = st.start, !.lastControl = Null],
                                 pathId)
             ELSE IF short # {}
             THEN \* too few numbers for the coordinate group
                  Parsed("MalformedPathData",
                         CHOOSE k \in short : \A j \in short : k <= j, st)
             ELSE parseFrom(tokens, first + n, letter,
                            applyCommand(st, pathId + Len(st.anchors) + 1, letter,
                                         [k \in 1..n |-> tokens[first + k - 1].num]),
                            pathId)

\* a faulty importFromSVG: what was parsed before the offending token is kept
importFromSVGPrefix(tokens, firstId) ==
    LET r == parseFrom(tokens, 1, "", ParseState(<< >>, Origin, Origin, FALSE, Null),
                       firstId)
    IN  [error |-> "none", at |-> 0,
         path |-> [id |-> firstId, anchorPoints |-> r.st.anchors, closed |-> r.st.closed],
         nextId |-> firstId + 1 + Len(r.st.anchors)]

\* importFromSVG(d) when the next identifier is firstId: the failure reported, the
\* offending token, the path built and the next identifier afterwards
importFromSVG(tokens, firstId) ==
    LET r == parseFrom(tokens, 1, "", ParseState(<< >>, Origin, Origin, FALSE, Null),
                       firstId)
    IN  IF r.error # "none"
        THEN [error |-> r.error, at |-> r.at, path |-> VectorPath(firstId),
              nextId |-> firstId]
        ELSE [error |-> "none", at |-> 0,
              path |-> [id |-> firstId, anchorPoints |-> r.st.anchors,
                        closed |-> r.st.closed],
              nextId |-> firstId + 1 + Len(r.st.anchors)]

\* a faulty segmentCommand: the control points are written as the handles hold
\* them, relative to their anchors
segmentCommandOfHandles(segment) ==
    LET end == segment.endPoint.position
        c1 == IF segment.controlPoint1 = Null THEN Origin
              ELSE segment.startPoint.handleOut[1].position
        c2 == IF segment.controlPoint2 = Null THEN Origin
              ELSE segment.endPoint.handleIn[1].position
    IN  IF segment.type = "line"
        THEN << Cmd("L"), Num(end.x), Num(end.y) >>
        ELSE << Cmd("C"), Num(c1.x), Num(c1.y), Num(c2.x), Num(c2.y), Num(end.x), Num(end.y) >>

\* the command of one segment: L for a line, C with both control points for a
\* cubic (a control point that is absent is taken at its anchor)
segmentCommand(segment) ==
    LET end == segment.endPoint.position
        c1 == IF segment.controlPoint1 = Null THEN segment.startPoint.position
              ELSE segment.controlPoint1[1]
        c2 == IF segment.controlPoint2 = Null THEN end ELSE segment.controlPoint2[1]
    IN  IF segment.type = "line"
        THEN << Cmd("L"), Num(end.x), Num(end.y) >>
        ELSE << Cmd("C"), Num(c1.x), Num(c1.y), Num(c2.x), Num(c2.y), Num(end.x), Num(end.y) >>

RECURSIVE segmentCommands(_, _)
\* the commands of the first n segments
segmentCommands(segments, n) ==
    IF n = 0 THEN << >>
    ELSE segmentCommands(segments, n - 1) \o segmentCommand(segments[n])

\* toSVGPath(path): M for the first point, one command for each segment of
\* getSegments, Z when the path is closed; no path data for a path without anchors
toSVGPath(path) ==
    IF path.anchorPoints = << >>
    THEN << >>
    ELSE LET first == path.anchorPoints[1].position
             segments == getSegments(path)
         IN  << Cmd("M"), Num(first.x), Num(first.y) >>
                 \o segmentCommands(segments, Len(segments))
                 \o (IF path.closed THEN << Cmd("Z") >> ELSE << >>)

(***************************************************************************)
(* State.                                                                  *)
(*   heap        the VectorPath objects, by id (an object outlives its      *)
(*               removal from the collection while PenTool refers to it)    *)
(*   paths       PathManager's collection: the ids, in insertion order      *)
(*   nextId      the next identifier to hand out                            *)
(*   pathData    the path data an import is given (the codec specification) *)
(*   state .. isAltPressed   the fields of PenTool                          *)
(*   calls       the callbacks the last operation invoked, in order         *)
(*   lastResult  the last operation, its arguments and the failure reported *)
(*   pathsGroup .. previewGroup   the four layers of SvgPathRenderer: the   *)
(*               path elements (path id -> d attribute), the anchor circles *)
(*               (anchor ids), the handles (anchor id, "in" / "out") and    *)
(*               the preview elements                                       *)
(*   pathVersions   SvgPathRenderer's map from path id to the version it    *)
(*               rendered last                                              *)
(*   showAllHandles the renderer option of that name                        *)
(*   rendered    history: the paths of the manager as they were at the last *)
(*               renderPaths call                                           *)
(*   mode        the tool mode of the example component                     *)
(***************************************************************************)
VARIABLES heap, paths, nextId, pathData,
          state, currentPath, isDragging, dragStartPoint, currentAnchorPoint,
          isShiftPressed, isAltPressed, calls, lastResult,
          pathsGroup, anchorPointsGroup, handlesGroup, previewGroup, pathVersions,
          showAllHandles, rendered, mode

engine == << heap, paths, nextId >>

tool == << state, currentPath, isDragging, dragStartPoint, currentAnchorPoint,
           isShiftPressed, isAltPressed >>

layers == << pathsGroup, anchorPointsGroup, handlesGroup, previewGroup >>

view == << pathsGroup, anchorPointsGroup, handlesGroup, previewGroup, pathVersions,
           showAllHandles, rendered, mode >>

vars == << heap, paths, nextId, pathData, state, currentPath, isDragging,
           dragStartPoint, currentAnchorPoint, isShiftPressed, isAltPressed,
           calls, lastResult, pathsGroup, anchorPointsGroup, handlesGroup,
           previewGroup, pathVersions, showAllHandles, rendered, mode >>

Idle == "idle"

Drawing == "drawing"

DraggingHandle == "dragging-handle"

EditMode == "edit-mode"

\* the positions pointer events arrive at
Positions == {Pt(0, 0), Pt(8, 6), Pt(48, 64)}

Result(op, error, path, index, t, flag, point) ==
    [op |-> op, error |-> error, path |-> path, index |-> index, t |-> t,
     flag |-> flag, point |-> point]

\* the result of an operation with no arguments worth keeping
Plain(op) == Result(op, "none", 0, 0, Frac(0, 1), FALSE, Origin)

Call(cb, st, path, flag) == [cb |-> cb, state |-> st, path |-> path, canClose |-> flag]

\* the result of a keyboard handler: the key it was given is kept as well
KeyResult(op, key) ==
    [op |-> op, error |-> "none", path |-> 0, index |-> 0, t |-> Frac(0, 1),
     flag |-> FALSE, point |-> Origin, key |-> key]

\* the objects still referred to: those of the collection and PenTool's current path
Live(h, order, cur) ==
    LET keep == {order[i] : i \in 1..Len(order)} \cup {cur[i] : i \in 1..Len(cur)}
    IN  [i \in keep \cap DOMAIN h |-> h[i]]

\* a faulty setState: the callback is invoked whether the state changes or not
setStateAlways(newState) == << Call("onStateChange", newState, 0, FALSE) >>

\* setState(newState): the onStateChange call it makes
setState(newState) ==
    IF state # newState THEN << Call("onStateChange", newState, 0, FALSE) >> ELSE << >>

\* notifyPathModified() while the current path is cur
notifyPathModified(cur) ==
    IF cur # Null THEN << Call("onPathModified", "", cur[1], FALSE) >> ELSE << >>

\* the position of the anchor with the given id in a sequence of anchors, or 0
IndexOf(anchors, anchorId) ==
    IF \E i \in 1..Len(anchors) : anchors[i].id = anchorId
    THEN CHOOSE i \in 1..Len(anchors) : anchors[i].id = anchorId
    ELSE 0

Reverse(s) == [i \in 1..Len(s) |-> s[Len(s) + 1 - i]]

NegateHandle(h) ==
    IF h = Null THEN Null ELSE Some([h[1] EXCEPT !.position = negate(@)])

\* reversePathDirection(path): the anchors in reverse order, the two handles of
\* each swapped and both negated
reversePathDirection(path) ==
    [path EXCEPT !.anchorPoints =
        [i \in 1..Len(@) |->
            LET a == Reverse(path.anchorPoints)[i]
            IN  [a EXCEPT !.handleIn = NegateHandle(a.handleOut),
                          !.handleOut = NegateHandle(a.handleIn)]]]

\* snapToAngle(vector): the vector of the same length at the nearest multiple of
\* snapAngle (45 degrees); tan(22.5 degrees) is 0.41421...
Abs(n) == IF n < 0 THEN 0 - n ELSE n

Sign(n) == IF n < 0 THEN 0 - 1 ELSE IF n > 0 THEN 1 ELSE 0

snapToAngle(vector) ==
    LET ax == Abs(vector.x)
        ay == Abs(vector.y)
        diag == ISqrt(lengthSq(vector) \div 2)
    IN  IF ay * 100000 <= ax * 41421
        THEN Pt(Sign(vector.x) * length(vector), 0)
        ELSE IF ax * 100000 <= ay * 41421
             THEN Pt(0, Sign(vector.y) * length(vector))
             ELSE Pt(Sign(vector.x) * diag, Sign(vector.y) * diag)

snapPositionToAngle(position, referencePoint) ==
    add(referencePoint, snapToAngle(subtract(position, referencePoint)))

(***************************************************************************)
(* PenTool (src/tools/penTool.ts).                                         *)
(***************************************************************************)
\* a faulty continuedPath: closed paths are resumed as well
continuedPathAlsoClosed(position) ==
    LET hits == {i \in 1..Len(paths) :
                    LET a == heap[paths[i]].anchorPoints
                    IN  /\ Len(a) > 0
                        /\ \/ within(position, a[Len(a)].position, closePathThreshold)
                           \/ within(position, a[1].position, closePathThreshold)}
    IN  IF hits = {} THEN 0 ELSE CHOOSE i \in hits : \A j \in hits : i <= j

\* the index in the collection of the first open, non-empty path that has its
\* last or its first anchor within closePathThreshold of position, or 0
continuedPath(position) ==
    LET hits == {i \in 1..Len(paths) :
                    LET a == heap[paths[i]].anchorPoints
                    IN  /\ ~heap[paths[i]].closed
                        /\ Len(a) > 0
                        /\ \/ within(position, a[Len(a)].position, closePathThreshold)
                           \/ within(position, a[1].position, closePathThreshold)}
    IN  IF hits = {} THEN 0 ELSE CHOOSE i \in hits : \A j \in hits : i <= j

\* a faulty closesCurrent: the click closes the path only when closePath would
\* succeed
closesCurrentWhenClosable(position) ==
    /\ currentPath # Null
    /\ Len(heap[currentPath[1]].anchorPoints) >= 3
    /\ within(position, heap[currentPath[1]].anchorPoints[1].position, closePathThreshold)

\* does the mouse-down close the current path (a click near its first anchor)
closesCurrent(position) ==
    /\ currentPath # Null
    /\ Len(heap[currentPath[1]].anchorPoints) > 0
    /\ within(position, heap[currentPath[1]].anchorPoints[1].position, closePathThreshold)

\* a faulty finishPath: the drag that was under way is not forgotten
finishPathKeepingDrag ==
    /\ currentPath' = Null
    /\ currentAnchorPoint' = Null
    /\ UNCHANGED << isDragging, dragStartPoint >>
    /\ state' = Idle

\* a faulty finishPath: the current path is kept
finishPathKeepingPath ==
    /\ UNCHANGED currentPath
    /\ currentAnchorPoint' = Null
    /\ isDragging' = FALSE
    /\ dragStartPoint' = Null
    /\ state' = Idle

\* a faulty finishPath: the anchor of the drag is not forgotten
finishPathKeepingAnchor ==
    /\ currentPath' = Null
    /\ UNCHANGED currentAnchorPoint
    /\ isDragging' = FALSE
    /\ dragStartPoint' = Null
    /\ state' = Idle

\* finishPath()
finishPath ==
    /\ currentPath' = Null
    /\ currentAnchorPoint' = Null
    /\ isDragging' = FALSE
    /\ dragStartPoint' = Null
    /\ state' = Idle

onMouseDown(position) ==
    /\ lastResult' = Result("onMouseDown", "none", 0, 0, Frac(0, 1), FALSE, position)
    /\ UNCHANGED << pathData, isShiftPressed, isAltPressed >>
    /\ IF state = EditMode
       THEN /\ calls' = << >>
            /\ UNCHANGED << engine, state, currentPath, isDragging, dragStartPoint,
                            currentAnchorPoint >>
       ELSE IF closesCurrent(position)
       THEN \* close the path
            /\ heap' = Live([heap EXCEPT ![currentPath[1]] = closePath(@).path], paths, Null)
            /\ calls' = notifyPathModified(currentPath) \o setState(Idle)
            /\ finishPath
            /\ UNCHANGED << paths, nextId >>
       ELSE IF currentPath = Null /\ continuedPath(position) # 0
       THEN LET id == paths[continuedPath(position)]
                a == heap[id].anchorPoints
            IN  /\ currentPath' = Some(id)
                /\ state' = Drawing
                /\ isDragging' = FALSE
                /\ dragStartPoint' = Null
                /\ IF within(position, a[Len(a)].position, closePathThreshold)
                   THEN \* continue from the end of the path
                        /\ calls' = setState(Drawing)
                        /\ heap' = heap
                   ELSE \* continue from the start: reverse the path
                        /\ calls' = setState(Drawing) \o notifyPathModified(Some(id))
                        /\ heap' = [heap EXCEPT ![id] = reversePathDirection(@)]
                /\ UNCHANGED << paths, nextId, currentAnchorPoint >>
       ELSE IF currentPath = Null
       THEN \* no endpoint clicked: start a new path
            /\ nextId <= MaxId
            /\ heap' = (nextId :> VectorPath(nextId)) @@ heap
            /\ paths' = Append(paths, nextId)
            /\ nextId' = nextId + 1
            /\ currentPath' = Some(nextId)
            /\ state' = Drawing
            /\ calls' = setState(Drawing)
            /\ isDragging' = TRUE
            /\ dragStartPoint' = Some(position)
            /\ UNCHANGED currentAnchorPoint
       ELSE /\ isDragging' = TRUE
            /\ dragStartPoint' = Some(position)
            /\ calls' = << >>
            /\ UNCHANGED << engine, state, currentPath, currentAnchorPoint >>

\* the close-path hover callback of onMouseMove
closePathHover(position) ==
    IF currentPath # Null /\ Len(heap[currentPath[1]].anchorPoints) > 0
    THEN << Call("onClosePathHover", "", 0,
                 within(position, heap[currentPath[1]].anchorPoints[1].position,
                        closePathThreshold)) >>
    ELSE << >>

\* a faulty dragUpdate: the anchor is left Independent after the update
dragUpdateUnrestored(anchor, alt, position) ==
    LET independent == IF alt THEN [anchor EXCEPT !.mirrorMode = Independent] ELSE anchor
    IN  updateHandle(independent, TRUE, position)

\* the update of the drag anchor in onMouseMove: Alt makes the anchor Independent
\* for the duration of the update
dragUpdate(anchor, alt, position) ==
    LET independent == IF alt THEN [anchor EXCEPT !.mirrorMode = Independent] ELSE anchor
        updated == updateHandle(independent, TRUE, position)
    IN  IF alt THEN [updated EXCEPT !.mirrorMode = anchor.mirrorMode] ELSE updated

onMouseMove(position) ==
    /\ lastResult' = Result("onMouseMove", "none", 0, 0, Frac(0, 1), FALSE, position)
    /\ UNCHANGED << pathData, paths, currentPath, isDragging, dragStartPoint,
                    isShiftPressed, isAltPressed >>
    /\ IF isDragging /\ dragStartPoint # Null /\ currentPath # Null
       THEN LET cp == currentPath[1]
                delta == subtract(position, dragStartPoint[1])
                handlePosition == IF isShiftPressed THEN snapToAngle(delta) ELSE delta
                anchors == heap[cp].anchorPoints
            IN  /\ state' = DraggingHandle
                /\ calls' = closePathHover(position) \o setState(DraggingHandle)
                              \o notifyPathModified(currentPath)
                /\ IF currentAnchorPoint = Null
                   THEN LET added == addAnchorPoint(heap[cp], nextId, dragStartPoint[1],
                                                    Null, Some(handlePosition))
                            n == Len(added.anchorPoints)
                        IN  /\ nextId <= MaxId
                            /\ heap' = [heap EXCEPT ![cp] =
                                   IF isAltPressed
                                   THEN [added EXCEPT
                                           !.anchorPoints[n].mirrorMode = Independent]
                                   ELSE added]
                            /\ currentAnchorPoint' = Some(nextId)
                            /\ nextId' = nextId + 1
                   ELSE LET i == IndexOf(anchors, currentAnchorPoint[1])
                        IN  /\ heap' = IF i = 0
                                       THEN heap
                                       ELSE [heap EXCEPT ![cp].anchorPoints[i] =
                                               dragUpdate(@, isAltPressed, position)]
                            /\ UNCHANGED << nextId, currentAnchorPoint >>
       ELSE /\ calls' = closePathHover(position)
            /\ UNCHANGED << heap, nextId, state, currentAnchorPoint >>

onMouseUp(position) ==
    /\ lastResult' = Result("onMouseUp", "none", 0, 0, Frac(0, 1), FALSE, position)
    /\ UNCHANGED << pathData, paths, currentPath, isShiftPressed, isAltPressed >>
    /\ IF ~isDragging \/ dragStartPoint = Null \/ currentPath = Null
       THEN /\ calls' = << >>
            /\ UNCHANGED << heap, nextId, state, isDragging, dragStartPoint,
                            currentAnchorPoint >>
       ELSE /\ IF /\ distanceSq(dragStartPoint[1], position) < clickDistance * clickDistance
                  /\ currentAnchorPoint = Null
               THEN \* click without drag: a straight point
                    /\ nextId <= MaxId
                    /\ heap' = [heap EXCEPT ![currentPath[1]] =
                                   addAnchorPoint(@, nextId, dragStartPoint[1], Null, Null)]
                    /\ nextId' = nextId + 1
                    /\ calls' = notifyPathModified(currentPath) \o setState(Drawing)
               ELSE /\ calls' = setState(Drawing)
                    /\ UNCHANGED << heap, nextId >>
            /\ isDragging' = FALSE
            /\ dragStartPoint' = Null
            /\ currentAnchorPoint' = Null
            /\ state' = Drawing

\* the keys that arrive: the two modifiers, the two commands and one other key
ModifierKeys == {"Shift", "Alt"}

CommandKeys == {"Escape", "Enter", "a"}

onKeyDown(key) ==
    /\ lastResult' = KeyResult("onKeyDown", key)
    /\ UNCHANGED << pathData, paths, nextId >>
    /\ IF key = "Shift"
       THEN /\ isShiftPressed' = TRUE
            /\ calls' = << >>
            /\ UNCHANGED << heap, state, currentPath, isDragging, dragStartPoint,
                            currentAnchorPoint, isAltPressed >>
       ELSE IF key = "Alt"
       THEN /\ isAltPressed' = TRUE
            /\ calls' = << >>
            /\ UNCHANGED << heap, state, currentPath, isDragging, dragStartPoint,
                            currentAnchorPoint, isShiftPressed >>
       ELSE IF key = "Escape"
       THEN /\ finishPath
            /\ calls' = setState(Idle)
            /\ heap' = Live(heap, paths, Null)
            /\ UNCHANGED << isShiftPressed, isAltPressed >>
       ELSE IF key = "Enter" /\ currentPath # Null
       THEN /\ heap' = Live([heap EXCEPT ![currentPath[1]] = closePath(@).path], paths, Null)
            /\ calls' = notifyPathModified(currentPath) \o setState(Idle)
            /\ finishPath
            /\ UNCHANGED << isShiftPressed, isAltPressed >>
       ELSE /\ calls' = << >>
            /\ UNCHANGED << heap, state, currentPath, isDragging, dragStartPoint,
                            currentAnchorPoint, isShiftPressed, isAltPressed >>

onKeyUp(key) ==
    /\ lastResult' = KeyResult("onKeyUp", key)
    /\ calls' = << >>
    /\ isShiftPressed' = IF key = "Shift" THEN FALSE ELSE isShiftPressed
    /\ isAltPressed' = IF key = "Alt" THEN FALSE ELSE isAltPressed
    /\ UNCHANGED << engine, pathData, state, currentPath, isDragging, dragStartPoint,
                    currentAnchorPoint >>

reset ==
    /\ lastResult' = Plain("reset")
    /\ finishPath
    /\ calls' = setState(Idle)
    /\ heap' = Live(heap, paths, Null)
    /\ UNCHANGED << paths, nextId, pathData, isShiftPressed, isAltPressed >>

\* the parameters t of addPointToPath
TValues == {Frac(0, 1), Frac(1, 2), Frac(1, 1)}

\* addPointToPath past its check of segmentIndex: the position on the segment, the
\* insertion and the default handles
insertOnSegment(path, newId, segmentIndex, t) ==
    LET segment == getSegments(path)[segmentIndex + 1]
    IN  IF /\ segment.type = "cubic"
           /\ (segment.controlPoint1 = Null \/ segment.controlPoint2 = Null)
        THEN \* cubicBezierPoint reads a control point that is undefined
             Outcome(path, "TypeError")
        ELSE LET newPosition ==
                     IF segment.type = "line"
                     THEN lerp(segment.startPoint.position, segment.endPoint.position, t)
                     ELSE cubicBezierPoint(segment.startPoint.position,
                                           segment.controlPoint1[1],
                                           segment.controlPoint2[1],
                                           segment.endPoint.position, t)
                 inserted == insertAnchorPoint(path, newId, segmentIndex + 1,
                                               newPosition).path
                 a == inserted.anchorPoints
                 prevPoint == a[segmentIndex + 1]
                 nextPoint == a[((segmentIndex + 2) % Len(a)) + 1]
             IN  Outcome([inserted EXCEPT !.anchorPoints[segmentIndex + 2] =
                             createDefaultHandles(@, prevPoint.position,
                                                  nextPoint.position,
                                                  defaultHandleLength)],
                         "none")

\* a faulty addPointToPath: the anchor is appended before segmentIndex is checked
addPointToPathLateCheck(path, newId, segmentIndex, t) ==
    IF segmentIndex < 0 \/ segmentIndex >= Len(getSegments(path))
    THEN Outcome(addAnchorPoint(path, newId, Origin, Null, Null), "Invalid segment index")
    ELSE insertOnSegment(path, newId, segmentIndex, t)

\* a faulty addPointToPath: at t = 0 and t = 1 the point is an anchor already,
\* and nothing is inserted
addPointToPathMerging(path, newId, segmentIndex, t) ==
    LET segments == getSegments(path)
    IN  IF segmentIndex < 0 \/ segmentIndex >= Len(segments)
        THEN Outcome(path, "Invalid segment index")
        ELSE IF t.num = 0 \/ t.num = t.den
        THEN Outcome(path, "none")
        ELSE insertOnSegment(path, newId, segmentIndex, t)

\* addPointToPath(path, segmentIndex, t): the path afterwards and the error thrown
addPointToPath(path, newId, segmentIndex, t) ==
    LET segments == getSegments(path)
    IN  IF segmentIndex < 0 \/ segmentIndex >= Len(segments)
        THEN Outcome(path, "Invalid segment index")
        ELSE insertOnSegment(path, newId, segmentIndex, t)

AddPointToPath(id, segmentIndex, t) ==
    \E r \in {addPointToPath(heap[id], nextId, segmentIndex, t)} :
        /\ r.error = "none" => nextId <= MaxId
        /\ lastResult' = Result("addPointToPath", r.error, id, segmentIndex, t, FALSE, Origin)
        /\ heap' = [heap EXCEPT ![id] = r.path]
        /\ nextId' = IF r.error = "none" THEN nextId + 1 ELSE nextId
        /\ calls' = IF r.error = "none" THEN notifyPathModified(currentPath) ELSE << >>
        /\ UNCHANGED << paths, pathData, tool >>

(***************************************************************************)
(* The mutation API of PathManager as its other callers use it.            *)
(***************************************************************************)
CreatePath ==
    /\ nextId <= MaxId
    /\ heap' = (nextId :> VectorPath(nextId)) @@ heap
    /\ paths' = Append(paths, nextId)
    /\ nextId' = nextId + 1
    /\ lastResult' = Result("createPath", "none", nextId, 0, Frac(0, 1), FALSE, Origin)
    /\ calls' = << >>
    /\ UNCHANGED << pathData, tool >>

\* removePath(id): no-op when the id is not in the collection
removePath(order, id) == SelectSeq(order, LAMBDA i : i # id)

\* a faulty removePath: the identifiers of the removed path are handed out again
RemovePathRecycling(id) ==
    /\ paths' = removePath(paths, id)
    /\ heap' = Live(heap, paths', currentPath)
    /\ nextId' = IF id \in DOMAIN heap /\ id < nextId THEN id ELSE nextId
    /\ lastResult' = Result("removePath", "none", id, 0, Frac(0, 1), FALSE, Origin)
    /\ calls' = << >>
    /\ UNCHANGED << pathData, tool >>

RemovePath(id) ==
    /\ paths' = removePath(paths, id)
    /\ heap' = Live(heap, paths', currentPath)
    /\ lastResult' = Result("removePath", "none", id, 0, Frac(0, 1), FALSE, Origin)
    /\ calls' = << >>
    /\ UNCHANGED << nextId, pathData, tool >>

AddAnchorPoint(id, position) ==
    /\ nextId <= MaxId
    /\ heap' = [heap EXCEPT ![id] = addAnchorPoint(@, nextId, position, Null, Null)]
    /\ nextId' = nextId + 1
    /\ lastResult' = Result("addAnchorPoint", "none", id, 0, Frac(0, 1), FALSE, position)
    /\ calls' = << >>
    /\ UNCHANGED << paths, pathData, tool >>

InsertAnchorPoint(id, index, position) ==
    \E r \in {insertAnchorPoint(heap[id], nextId, index, position)} :
        /\ r.error = "none" => nextId <= MaxId
        /\ heap' = [heap EXCEPT ![id] = r.path]
        /\ nextId' = IF r.error = "none" THEN nextId + 1 ELSE nextId
        /\ lastResult' = Result("insertAnchorPoint", r.error, id, index, Frac(0, 1),
                                FALSE, position)
        /\ calls' = << >>
        /\ UNCHANGED << paths, pathData, tool >>

RemoveAnchorPoint(id, index) ==
    \E r \in {removeAnchorPoint(heap[id], index)} :
        /\ heap' = [heap EXCEPT ![id] = r.path]
        /\ lastResult' = Result("removeAnchorPoint", r.error, id, index, Frac(0, 1),
                                FALSE, Origin)
        /\ calls' = << >>
        /\ UNCHANGED << paths, nextId, pathData, tool >>

ClosePath(id) ==
    \E r \in {closePath(heap[id])} :
        /\ heap' = [heap EXCEPT ![id] = r.path]
        /\ lastResult' = Result("closePath", r.error, id, 0, Frac(0, 1), FALSE, Origin)
        /\ calls' = << >>
        /\ UNCHANGED << paths, nextId, pathData, tool >>

\* importFromSVG(d): the path joins the collection, or nothing changes
ImportFromSVG(d) ==
    \E r \in {importFromSVG(d, nextId)} :
        /\ r.nextId <= MaxId + 1
        /\ heap' = IF r.error = "none" THEN (nextId :> r.path) @@ heap ELSE heap
        /\ paths' = IF r.error = "none" THEN Append(paths, nextId) ELSE paths
        /\ nextId' = r.nextId
        /\ lastResult' = Result("importFromSVG", r.error, IF r.error = "none" THEN nextId ELSE 0,
                                r.at, Frac(0, 1), FALSE, Origin)
        /\ calls' = << >>
        /\ UNCHANGED << pathData, tool >>

\* HandleManager.updateHandle on the anchor at index of a path, as an editor calls it
UpdateHandle(id, index, isOutHandle, absolutePosition) ==
    /\ heap' = [heap EXCEPT ![id].anchorPoints[index + 1] =
                   updateHandle(@, isOutHandle, absolutePosition)]
    /\ lastResult' = Result("updateHandle", "none", id, index, Frac(0, 1), isOutHandle,
                            absolutePosition)
    /\ calls' = << >>
    /\ UNCHANGED << paths, nextId, pathData, tool >>

(***************************************************************************)
(* The queries.  A query returns a value and writes nothing; what it        *)
(* returned is kept in lastResult.                                          *)
(***************************************************************************)
\* getAllPaths(): the paths of the collection, in order
getAllPaths(h, order) == [i \in 1..Len(order) |-> h[order[i]]]

GetAllPaths ==
    /\ lastResult' = Result("getAllPaths", "none", 0, Len(getAllPaths(heap, paths)),
                            Frac(0, 1), FALSE, Origin)
    /\ calls' = << >>
    /\ UNCHANGED << engine, pathData, tool >>

GetSegments(id) ==
    /\ lastResult' = Result("getSegments", "none", id, Len(getSegments(heap[id])),
                            Frac(0, 1), FALSE, Origin)
    /\ calls' = << >>
    /\ UNCHANGED << engine, pathData, tool >>

\* a faulty query: a handle that is absent is created, hidden and of length 0,
\* on the way
GetAbsoluteHandlePositionCreating(id, index, isOutHandle) ==
    \E r \in {getAbsoluteHandlePosition(heap[id].anchorPoints[index + 1], isOutHandle)} :
        /\ lastResult' = Result("getAbsoluteHandlePosition", "none", id, index, Frac(0, 1),
                                r # Null, IF r # Null THEN r[1] ELSE Origin)
        /\ heap' = [heap EXCEPT ![id].anchorPoints[index + 1] =
                       IF isOutHandle
                       THEN [@ EXCEPT !.handleOut =
                                IF @ = Null THEN Some(Handle(Origin, FALSE)) ELSE @]
                       ELSE [@ EXCEPT !.handleIn =
                                IF @ = Null THEN Some(Handle(Origin, FALSE)) ELSE @]]
        /\ calls' = << >>
        /\ UNCHANGED << paths, nextId, pathData, tool >>

\* HandleManager.getAbsoluteHandlePosition on the anchor at index of a path
GetAbsoluteHandlePosition(id, index, isOutHandle) ==
    \E r \in {getAbsoluteHandlePosition(heap[id].anchorPoints[index + 1], isOutHandle)} :
        /\ lastResult' = Result("getAbsoluteHandlePosition", "none", id, index, Frac(0, 1),
                                r # Null, IF r # Null THEN r[1] ELSE Origin)
        /\ calls' = << >>
        /\ UNCHANGED << engine, pathData, tool >>

\* toSVGPath(path): the path data of a path, kept as the data a later import
\* is given
ToSVGPath(id) ==
    /\ pathData' = toSVGPath(heap[id])
    /\ lastResult' = Result("toSVGPath", "none", id, Len(toSVGPath(heap[id])), Frac(0, 1),
                            FALSE, Origin)
    /\ calls' = << >>
    /\ UNCHANGED << engine, tool >>

\* importFromSVG(d) of path data into a collection of fewer than MaxPaths paths
ImportInto(d) ==
    \E r \in {importFromSVG(d, nextId)} :
        /\ Len(paths) < MaxPaths
        /\ heap' = IF r.error = "none" THEN (nextId :> r.path) @@ heap ELSE heap
        /\ paths' = IF r.error = "none" THEN Append(paths, nextId) ELSE paths
        /\ nextId' = r.nextId
        /\ lastResult' = Result("importFromSVG", r.error, IF r.error = "none" THEN nextId ELSE 0,
                                r.at, Frac(0, 1), FALSE, Origin)
        /\ calls' = << >>
        /\ UNCHANGED << pathData, tool >>

(***************************************************************************)
(* SvgPathRenderer (src/renderer/SvgPathRenderer.ts).  The paths layer is a *)
(* function from the data-path-id of each path element to its d attribute;  *)
(* the paths of the model carry no stroke, fill or selection, so their      *)
(* share in the version, the same for every path, is left out.              *)
(***************************************************************************)
\* a ^ b on two's complement integers
RECURSIVE BitXor(_, _)
BitXor(a, b) ==
    IF a = 0 THEN b
    ELSE IF b = 0 THEN a
    ELSE IF a = 0 - 1 THEN (0 - b) - 1
    ELSE IF b = 0 - 1 THEN (0 - a) - 1
    ELSE (((a % 2) + (b % 2)) % 2) + 2 * BitXor(a \div 2, b \div 2)

\* the terms getPathVersion folds into the hash for the anchor at index i (from 0)
VersionTerms(point, i) ==
    << (point.position.x * 31 + point.position.y) * (i + 1) >>
        \o (IF shown(point.handleIn)
            THEN << (point.handleIn[1].position.x * 17 + point.handleIn[1].position.y)
                        * (i + 1000) >>
            ELSE << >>)
        \o (IF shown(point.handleOut)
            THEN << (point.handleOut[1].position.x * 19 + point.handleOut[1].position.y)
                        * (i + 2000) >>
            ELSE << >>)

\* hash ^= term, for the first k terms, last first
RECURSIVE XorAll(_, _, _)
XorAll(hash, terms, k) ==
    IF k = 0 THEN hash ELSE XorAll(BitXor(hash, terms[k]), terms, k - 1)

\* the loop of getPathVersion over the first n anchors
RECURSIVE AnchorVersions(_, _, _)
AnchorVersions(hash, anchors, n) ==
    IF n = 0
    THEN hash
    ELSE AnchorVersions(XorAll(hash, VersionTerms(anchors[n], n - 1),
                               Len(VersionTerms(anchors[n], n - 1))),
                        anchors, n - 1)

\* getPathVersion(path)
getPathVersion(path) ==
    AnchorVersions(BitXor(IF path.closed THEN 1 ELSE 0, Len(path.anchorPoints) * 2),
                   path.anchorPoints, Len(path.anchorPoints))

\* a map without the given keys
Without(f, keys) == [k \in DOMAIN f \ keys |-> f[k]]

\* the paths of the manager by id
Snapshot(h, order) == [id \in {order[i] : i \in 1..Len(order)} |-> h[id]]

\* a faulty renderPaths: every path is rendered again, changed or not
renderPathsAll(h, order, group, versions) ==
    LET ids == {order[i] : i \in 1..Len(order)}
        stale == DOMAIN group \ ids
        touched == {id \in ids : toSVGPath(h[id]) # << >>}
    IN  [pathsGroup |-> [id \in (DOMAIN group \ stale) \cup touched |->
                            IF id \in touched THEN toSVGPath(h[id]) ELSE group[id]],
         pathVersions |-> [id \in (DOMAIN versions \ stale) \cup ids |->
                              getPathVersion(h[id])],
         touched |-> touched]

\* renderPaths(pathManager) on the paths layer and the versions: the elements of
\* paths that are gone are removed with their versions; a path whose version
\* differs from the one kept (or that has none) goes through updateOrCreatePath,
\* which sets the d attribute unless the path data is empty.  touched is the
\* set of elements created or written to
renderPaths(h, order, group, versions) ==
    LET ids == {order[i] : i \in 1..Len(order)}
        stale == DOMAIN group \ ids
        kept == Without(versions, stale)
        changed == {id \in ids : id \notin DOMAIN kept \/ kept[id] # getPathVersion(h[id])}
        touched == {id \in changed : toSVGPath(h[id]) # << >>}
    IN  [pathsGroup |-> [id \in (DOMAIN group \ stale) \cup touched |->
                            IF id \in touched THEN toSVGPath(h[id]) ELSE group[id]],
         pathVersions |-> [id \in DOMAIN kept \cup changed |->
                              IF id \in changed THEN getPathVersion(h[id]) ELSE kept[id]],
         touched |-> touched]

\* renderAnchorPoints(pathManager): a circle for every anchor of every path
renderAnchorPoints(h, order) ==
    UNION {{h[order[i]].anchorPoints[k].id : k \in 1..Len(h[order[i]].anchorPoints)} :
              i \in 1..Len(order)}

\* renderHandles(pathManager, currentDrawingPath): the visible handles of the
\* anchors that show them: all with showAllHandles, the selected ones, and the
\* last two anchors of the path being drawn
renderHandles(h, order, currentDrawingPath, all) ==
    UNION {UNION {LET a == h[order[i]].anchorPoints
                      n == Len(a)
                      showHandles ==
                          \/ all
                          \/ a[k].selected
                          \/ /\ currentDrawingPath = Some(order[i])
                             /\ k >= n - 1
                  IN  IF showHandles
                      THEN (IF shown(a[k].handleIn) THEN {<< a[k].id, "in" >>} ELSE {})
                               \cup (IF shown(a[k].handleOut) THEN {<< a[k].id, "out" >>} ELSE {})
                      ELSE {} : k \in 1..Len(h[order[i]].anchorPoints)} :
              i \in 1..Len(order)}

\* the result of a renderPaths call: the elements it touched are kept as well
RenderResult(op, touched) ==
    [op |-> op, error |-> "none", path |-> 0, index |-> 0, t |-> Frac(0, 1),
     flag |-> FALSE, point |-> Origin, touched |-> touched]

\* renderer.renderPaths(pathManager)
RenderPaths ==
    \E r \in {renderPaths(heap, paths, pathsGroup, pathVersions)} :
        /\ pathsGroup' = r.pathsGroup
        /\ pathVersions' = r.pathVersions
        /\ rendered' = Snapshot(heap, paths)
        /\ lastResult' = RenderResult("renderPaths", r.touched)
        /\ calls' = << >>
        /\ UNCHANGED << engine, pathData, tool, anchorPointsGroup, handlesGroup,
                        previewGroup, showAllHandles, mode >>

\* renderer.clear(): the four layers are emptied; the versions are kept
Clear ==
    /\ pathsGroup' = << >>
    /\ anchorPointsGroup' = {}
    /\ handlesGroup' = {}
    /\ previewGroup' = {}
    /\ lastResult' = Plain("clear")
    /\ calls' = << >>
    /\ UNCHANGED << engine, pathData, tool, pathVersions, showAllHandles, rendered, mode >>

\* the renderer after its constructor, given no PathManager: the groups are
\* created and nothing is imported or rendered
InitRenderer ==
    /\ pathsGroup = << >>
    /\ pathVersions = << >>
    /\ rendered = << >>
    /\ anchorPointsGroup = {}
    /\ handlesGroup = {}
    /\ previewGroup = {}
    /\ showAllHandles = FALSE
    /\ mode = "pen"

(***************************************************************************)
(* The pages the library starts on: the renderer's auto-import hands the    *)
(* page's path elements to the PathManager at construction.                 *)
(***************************************************************************)
PathIds == {paths[i] : i \in 1..Len(paths)}

\* M 0 0 L 48 0 L 48 64
Triangle ==
    << Cmd("M"), Num(0), Num(0), Cmd("L"), Num(48), Num(0), Cmd("L"), Num(48), Num(64) >>

\* M 0 0 C 0 48 48 48 48 0 L 48 64
Arch ==
    << Cmd("M"), Num(0), Num(0), Cmd("C"), Num(0), Num(48), Num(48), Num(48), Num(48),
       Num(0), Cmd("L"), Num(48), Num(64) >>

\* M 0 0 and M 48 64: two paths of one point each
Dots == << << Cmd("M"), Num(0), Num(0) >>, << Cmd("M"), Num(48), Num(64) >> >>

\* the path elements of the page, in document order
InitialPathData == {<< Triangle >>, << Arch >>, Dots}

RECURSIVE importAll(_, _)
\* the engine after the renderer's auto-import of the page's path elements
importAll(ds, firstId) ==
    IF ds = << >>
    THEN [heap |-> << >>, paths |-> << >>, nextId |-> firstId]
    ELSE LET n == Len(ds)
             before == importAll(SubSeq(ds, 1, n - 1), firstId)
             r == importFromSVG(ds[n], before.nextId)
         IN  [heap |-> (before.nextId :> r.path) @@ before.heap,
              paths |-> Append(before.paths, before.nextId),
              nextId |-> r.nextId]

\* the path data later imports are given: M 8 6, M 8 6 Z, M 8 6 L 48 and
\* M 0 0 L 10 L 10 10
ImportedPathData ==
    { << Cmd("M"), Num(8), Num(6) >>,
      << Cmd("M"), Num(8), Num(6), Cmd("Z") >>,
      << Cmd("M"), Num(8), Num(6), Cmd("L"), Num(48) >>,
      << Cmd("M"), Num(0), Num(0), Cmd("L"), Num(10), Cmd("L"), Num(10), Num(10) >> }

InitTool ==
    /\ state = Idle
    /\ currentPath = Null
    /\ isDragging = FALSE
    /\ dragStartPoint = Null
    /\ currentAnchorPoint = Null
    /\ isShiftPressed = FALSE
    /\ isAltPressed = FALSE
    /\ calls = << >>

Init ==
    /\ \E ds \in InitialPathData :
          LET page == importAll(ds, 1)
          IN  /\ heap = page.heap
              /\ paths = page.paths
              /\ nextId = page.nextId
    /\ pathData = << >>
    /\ InitTool
    /\ lastResult = Plain("new")
    /\ InitRenderer

MouseDown == \E position \in Positions : onMouseDown(position) /\ UNCHANGED view

MouseMove == \E position \in Positions : onMouseMove(position) /\ UNCHANGED view

MouseUp == \E position \in Positions : onMouseUp(position) /\ UNCHANGED view

KeyDown == \E key \in CommandKeys : onKeyDown(key) /\ UNCHANGED view

ModifierDown == \E key \in ModifierKeys : onKeyDown(key) /\ UNCHANGED view

KeyUp == \E key \in ModifierKeys \cup CommandKeys : onKeyUp(key) /\ UNCHANGED view

Reset == reset /\ UNCHANGED view

AddPoint ==
    \E id \in PathIds, t \in TValues :
        \E segmentIndex \in -1..Len(heap[id].anchorPoints) :
            AddPointToPath(id, segmentIndex, t) /\ UNCHANGED view

Create == CreatePath /\ UNCHANGED view

Remove == \E id \in PathIds : RemovePath(id) /\ UNCHANGED view

\* the position the other callers add and insert anchors at
ApiPositions == {Pt(8, 6)}

Add ==
    \E id \in PathIds, position \in ApiPositions :
        AddAnchorPoint(id, position) /\ UNCHANGED view

Insert ==
    \E id \in PathIds, position \in ApiPositions :
        \E index \in -1..(Len(heap[id].anchorPoints) + 1) :
            InsertAnchorPoint(id, index, position) /\ UNCHANGED view

RemoveAnchor ==
    \E id \in PathIds :
        \E index \in -1..Len(heap[id].anchorPoints) :
            RemoveAnchorPoint(id, index) /\ UNCHANGED view

Close == \E id \in PathIds : ClosePath(id) /\ UNCHANGED view

Import == \E d \in ImportedPathData : ImportFromSVG(d) /\ UNCHANGED view

\* the paths a caller can query: those of the collection and, through
\* getCurrentPath(), PenTool's current path
QueryIds == PathIds \cup {currentPath[i] : i \in 1..Len(currentPath)}

QueryPaths == GetAllPaths /\ UNCHANGED view

QuerySegments == \E id \in QueryIds : GetSegments(id) /\ UNCHANGED view

QueryHandle ==
    \E id \in QueryIds, isOutHandle \in BOOLEAN :
        \E index \in 0..(Len(heap[id].anchorPoints) - 1) :
            GetAbsoluteHandlePosition(id, index, isOutHandle) /\ UNCHANGED view

(***************************************************************************)
(* Spec: PenTool's pointer and keyboard events interleaved with the calls   *)
(* other callers make on the PathManager's mutation API.                    *)
(***************************************************************************)
Next ==
    \/ MouseDown
    \/ MouseMove
    \/ MouseUp
    \/ KeyDown
    \/ Reset
    \/ Create
    \/ Remove
    \/ Add
    \/ Insert
    \/ RemoveAnchor
    \/ Close
    \/ Import

Spec == Init /\ [][Next]_vars

(***************************************************************************)
(* SpecTool: PenTool alone, with the modifier keys.                         *)
(***************************************************************************)
NextTool ==
    \/ MouseDown
    \/ MouseMove
    \/ MouseUp
    \/ KeyDown
    \/ ModifierDown
    \/ KeyUp
    \/ Reset

SpecTool == Init /\ [][NextTool]_vars

(***************************************************************************)
(* SpecQueries: the queries, called between any two of PenTool's pointer    *)
(* and keyboard events, as a renderer does after each event.                *)
(***************************************************************************)
NextQueries ==
    \/ MouseDown
    \/ MouseMove
    \/ MouseUp
    \/ KeyDown
    \/ Reset
    \/ QueryPaths
    \/ QuerySegments
    \/ QueryHandle

SpecQueries == Init /\ [][NextQueries]_vars

(***************************************************************************)
(* SpecEngine: the mutation API of PathManager on its own, PenTool idle.    *)
(***************************************************************************)
NextEngine ==
    \/ Create
    \/ Remove
    \/ Add
    \/ Insert
    \/ RemoveAnchor
    \/ Close
    \/ Import

SpecEngine == Init /\ [][NextEngine]_vars

(***************************************************************************)
(* SpecInsert: the insertion of points into the paths of the page, by       *)
(* PenTool.addPointToPath and by insertAnchorPoint, on open and on closed   *)
(* paths.                                                                  *)
(***************************************************************************)
NextInsert ==
    \/ AddPoint
    \/ Insert
    \/ Close

SpecInsert == Init /\ [][NextInsert]_vars

(***************************************************************************)
(* The example component (examples/angular/src/app/pen-tool.component.ts):  *)
(* a PathManager, a renderer and a PenTool behind the mouse and keyboard     *)
(* events of the page and the buttons of the tool bar.  In edit mode the     *)
(* events go to EditMode, whose handlers are not part of the model: the      *)
(* component passes through that mode with toggleMode only.                  *)
(***************************************************************************)
\* renderer.update(pathManager, currentDrawingPath): renderPaths, renderHandles
\* and renderAnchorPoints
update(h, order, cur, all, group, versions) ==
    LET r == renderPaths(h, order, group, versions)
    IN  [pathsGroup |-> r.pathsGroup,
         pathVersions |-> r.pathVersions,
         handlesGroup |-> renderHandles(h, order, cur, all),
         anchorPointsGroup |-> renderAnchorPoints(h, order),
         rendered |-> Snapshot(h, order)]

\* renderer.renderViewOnly(pathManager): renderPaths and clearInteractive
renderViewOnly(h, order, group, versions) ==
    LET r == renderPaths(h, order, group, versions)
    IN  [pathsGroup |-> r.pathsGroup,
         pathVersions |-> r.pathVersions,
         handlesGroup |-> {},
         anchorPointsGroup |-> {},
         rendered |-> Snapshot(h, order)]

\* what the renderer shows now
shownNow ==
    [pathsGroup |-> pathsGroup, pathVersions |-> pathVersions,
     handlesGroup |-> handlesGroup, anchorPointsGroup |-> anchorPointsGroup,
     rendered |-> rendered]

\* the renderer shows r after the step
Show(r) ==
    \E v \in {r} :
        /\ pathsGroup' = v.pathsGroup
        /\ pathVersions' = v.pathVersions
        /\ handlesGroup' = v.handlesGroup
        /\ anchorPointsGroup' = v.anchorPointsGroup
        /\ rendered' = v.rendered

\* the onPathModified callback of the component: renderer.update with the path
\* PenTool had as its current path when it invoked the callback
onPathModified(cs, h, order) ==
    IF \E i \in 1..Len(cs) : cs[i].cb = "onPathModified"
    THEN LET i == CHOOSE i \in 1..Len(cs) : cs[i].cb = "onPathModified"
         IN  update(h, order, Some(cs[i].path), showAllHandles, pathsGroup, pathVersions)
    ELSE shownNow

\* an element of the preview layer: its kind (the id of the indicator; line or
\* path for the previews) and the point it is drawn at (cx, cy of the indicator;
\* the end point of a preview)
Element(kind, point) == [kind |-> kind, point |-> point]

\* the elements of a layer that are not of the given kind
Others(elements, kind) == {e \in elements : e.kind # kind}

\* the onClosePathHover callback of the component: renderClosePathIndicator at
\* the first anchor of the current path, or its removal
onClosePathHover(cs, preview) ==
    IF \E i \in 1..Len(cs) : cs[i].cb = "onClosePathHover"
    THEN LET i == CHOOSE i \in 1..Len(cs) : cs[i].cb = "onClosePathHover"
         IN  IF cs[i].canClose /\ currentPath # Null
             THEN Others(preview, "close-path-indicator")
                      \cup {Element("close-path-indicator",
                                    heap[currentPath[1]].anchorPoints[1].position)}
             ELSE Others(preview, "close-path-indicator")
    ELSE preview

\* the position the component hands to mouse-down and mouse-up: snapped to the
\* last anchor with Shift, when that anchor has no visible handleOut
eventPosition(position) ==
    IF /\ currentPath # Null
       /\ heap[currentPath[1]].anchorPoints # << >>
       /\ isShiftPressed
    THEN LET a == heap[currentPath[1]].anchorPoints
         IN  IF ~shown(a[Len(a)].handleOut)
             THEN snapPositionToAngle(position, a[Len(a)].position)
             ELSE position
    ELSE position

\* a mouse event in view mode: the handler returns at once
ignored(op, position) ==
    /\ lastResult' = Result(op, "none", 0, 0, Frac(0, 1), FALSE, position)
    /\ calls' = << >>
    /\ UNCHANGED << engine, pathData, tool, view >>

\* a keyboard event in view mode: the listener returns at once
ignoredKey(op, key) ==
    /\ lastResult' = KeyResult(op, key)
    /\ calls' = << >>
    /\ UNCHANGED << engine, pathData, tool, view >>

\* penTool.reset() inside a method of the component
penToolReset ==
    /\ finishPath
    /\ calls' = setState(Idle)
    /\ UNCHANGED << isShiftPressed, isAltPressed >>

ComponentMouseDown ==
    \E position \in Positions :
        IF mode = "view"
        THEN ignored("onMouseDown", position)
        ELSE /\ mode = "pen"
             /\ onMouseDown(eventPosition(position))
             /\ Show(onPathModified(calls', heap', paths'))
             /\ UNCHANGED << previewGroup, showAllHandles, mode >>

ComponentMouseMove ==
    \E position \in Positions :
        IF mode = "view"
        THEN ignored("onMouseMove", position)
        ELSE /\ mode = "pen"
             /\ onMouseMove(position)
             /\ Show(onPathModified(calls', heap', paths'))
             /\ previewGroup' =
                   IF /\ currentPath' # Null
                      /\ heap'[currentPath'[1]].anchorPoints # << >>
                      /\ state' = Drawing
                   THEN LET a == heap'[currentPath'[1]].anchorPoints
                        IN  IF shown(a[Len(a)].handleOut)
                            THEN {Element("path", position)}
                            ELSE {Element("line", position)}
                   ELSE onClosePathHover(calls', previewGroup)
             /\ UNCHANGED << showAllHandles, mode >>

ComponentMouseUp ==
    \E position \in Positions :
        IF mode = "view"
        THEN ignored("onMouseUp", position)
        ELSE /\ mode = "pen"
             /\ onMouseUp(eventPosition(position))
             /\ Show(onPathModified(calls', heap', paths'))
             /\ UNCHANGED << previewGroup, showAllHandles, mode >>

\* the keys of the component specification
ComponentKeys == {"Escape", "Enter"}

ComponentKeyDown ==
    \E key \in ComponentKeys :
        IF mode = "view"
        THEN ignoredKey("onKeyDown", key)
        ELSE /\ mode = "pen"
             /\ onKeyDown(key)
             /\ Show(onPathModified(calls', heap', paths'))
             /\ UNCHANGED << previewGroup, showAllHandles, mode >>

ComponentKeyUp ==
    \E key \in ComponentKeys :
        IF mode = "view"
        THEN ignoredKey("onKeyUp", key)
        ELSE /\ mode = "pen"
             /\ onKeyUp(key)
             /\ UNCHANGED view

\* setViewMode()
setViewMode(op) ==
    /\ mode' = "view"
    /\ penToolReset
    /\ heap' = Live(heap, paths, Null)
    /\ Show(renderViewOnly(heap', paths, pathsGroup, pathVersions))
    /\ previewGroup' = {}
    /\ lastResult' = Plain(op)
    /\ UNCHANGED << paths, nextId, pathData, showAllHandles >>

SetViewMode == setViewMode("setViewMode")

\* toggleMode(): pen -> edit -> view -> pen
ToggleMode ==
    IF mode = "pen"
    THEN /\ mode' = "edit"
         /\ showAllHandles' = TRUE
         /\ previewGroup' = {}
         /\ penToolReset
         /\ heap' = Live(heap, paths, Null)
         /\ Show(update(heap', paths, Null, TRUE, pathsGroup, pathVersions))
         /\ lastResult' = Plain("toggleMode")
         /\ UNCHANGED << paths, nextId, pathData >>
    ELSE IF mode = "edit"
    THEN setViewMode("toggleMode")
    ELSE /\ mode' = "pen"
         /\ showAllHandles' = FALSE
         /\ Show(update(heap, paths, currentPath, FALSE, pathsGroup, pathVersions))
         /\ lastResult' = Plain("toggleMode")
         /\ calls' = << >>
         /\ UNCHANGED << engine, pathData, tool, previewGroup >>

\* clearAllPaths()
ClearAllPaths ==
    /\ paths' = << >>
    /\ heap' = Live(heap, << >>, Null)
    /\ pathsGroup' = << >>
    /\ anchorPointsGroup' = {}
    /\ handlesGroup' = {}
    /\ previewGroup' = {}
    /\ penToolReset
    /\ lastResult' = Plain("clearAllPaths")
    /\ UNCHANGED << nextId, pathData, pathVersions, rendered, showAllHandles, mode >>

\* closeCurrentPath()
CloseCurrentPath ==
    /\ lastResult' = Plain("closeCurrentPath")
    /\ UNCHANGED << paths, nextId, pathData, previewGroup, showAllHandles, mode >>
    /\ IF currentPath # Null
       THEN /\ heap' = Live([heap EXCEPT ![currentPath[1]] = closePath(@).path], paths, Null)
            /\ Show(update(heap', paths, Null, showAllHandles, pathsGroup, pathVersions))
            /\ penToolReset
       ELSE /\ calls' = << >>
            /\ UNCHANGED << heap, tool, pathsGroup, pathVersions, handlesGroup,
                            anchorPointsGroup, rendered >>

\* deletePath(pathId)
DeletePath ==
    \E pathId \in PathIds :
        /\ paths' = removePath(paths, pathId)
        /\ heap' = Live(heap, paths', currentPath)
        /\ Show(update(heap', paths', IF mode = "pen" THEN currentPath ELSE Null,
                       showAllHandles, pathsGroup, pathVersions))
        /\ lastResult' = Result("deletePath", "none", pathId, 0, Frac(0, 1), FALSE, Origin)
        /\ calls' = << >>
        /\ UNCHANGED << nextId, pathData, tool, previewGroup, showAllHandles, mode >>

\* the component after initializeTools(): the page is imported and rendered by
\* the renderer's constructor, the tools are constructed, and the initial
\* renderer.update(pathManager, null) has drawn the anchors
InitComponent ==
    /\ \E ds \in InitialPathData :
          LET page == importAll(ds, 1)
          IN  /\ heap = page.heap
              /\ paths = page.paths
              /\ nextId = page.nextId
    /\ pathData = << >>
    /\ InitTool
    /\ lastResult = Plain("new")
    /\ pathsGroup = renderPaths(heap, paths, << >>, << >>).pathsGroup
    /\ pathVersions = renderPaths(heap, paths, << >>, << >>).pathVersions
    /\ rendered = Snapshot(heap, paths)
    /\ anchorPointsGroup = renderAnchorPoints(heap, paths)
    /\ handlesGroup = {}
    /\ previewGroup = {}
    /\ showAllHandles = FALSE
    /\ mode = "pen"

(***************************************************************************)
(* SpecComponent: the example component under the events of the page and    *)
(* the buttons of its tool bar.                                             *)
(***************************************************************************)
NextComponent ==
    \/ ComponentMouseDown
    \/ ComponentMouseMove
    \/ ComponentMouseUp
    \/ ComponentKeyDown
    \/ ComponentKeyUp
    \/ ToggleMode
    \/ SetViewMode
    \/ ClearAllPaths
    \/ CloseCurrentPath
    \/ DeletePath

SpecComponent == InitComponent /\ [][NextComponent]_vars

(***************************************************************************)
(* SpecHandles: HandleManager.updateHandle on one anchor.  The anchor       *)
(* starts with any pair of handles and any mirror mode; the handle vectors  *)
(* and the cursor offsets are axis-aligned or multiples of (3, 4), so that  *)
(* every length involved is an integer.                                     *)
(***************************************************************************)
HandleVectors == {Pt(3, 4), Pt(0 - 6, 0 - 8), Pt(0, 5), Pt(10, 0)}

InitialHandles ==
    {Null} \cup {Some(Handle(v, vis)) : v \in HandleVectors, vis \in BOOLEAN}

\* the position of the anchor
AnchorPosition == Pt(8, 6)

\* the cursor: the anchor's position itself and four points around it
Cursors ==
    {add(AnchorPosition, v) : v \in {Origin, Pt(3, 4), Pt(0 - 4, 3), Pt(10, 0), Pt(0, 0 - 5)}}

InitHandles ==
    /\ \E hIn \in InitialHandles, hOut \in InitialHandles, mirrorMode \in MirrorModes :
          heap = (1 :> [VectorPath(1) EXCEPT !.anchorPoints =
                           << AnchorPoint(2, AnchorPosition, hIn, hOut, mirrorMode) >>])
    /\ paths = << 1 >>
    /\ nextId = 3
    /\ pathData = << >>
    /\ InitTool
    /\ lastResult = Plain("new")
    /\ InitRenderer

Update ==
    \E id \in PathIds, isOutHandle \in BOOLEAN, absolutePosition \in Cursors :
        \E index \in 0..(Len(heap[id].anchorPoints) - 1) :
            UpdateHandle(id, index, isOutHandle, absolutePosition) /\ UNCHANGED view

NextHandles == Update

SpecHandles == InitHandles /\ [][NextHandles]_vars

(***************************************************************************)
(* SpecSegments: a path of three anchors whose first segment starts with    *)
(* any handleOut and ends with any handleIn (absent, hidden or visible),    *)
(* open or closed, under updateHandle and closePath.                        *)
(***************************************************************************)
InitSegments ==
    /\ \E hOut \in InitialHandles, hIn \in InitialHandles, closed \in BOOLEAN :
          heap = (1 :> [VectorPath(1) EXCEPT
                           !.anchorPoints =
                               << AnchorPoint(2, Pt(0, 0), Null, hOut, Mirrored),
                                  AnchorPoint(3, Pt(48, 0), hIn, Null, Mirrored),
                                  AnchorPoint(4, Pt(48, 64), Null, Null, Mirrored) >>,
                           !.closed = closed])
    /\ paths = << 1 >>
    /\ nextId = 5
    /\ pathData = << >>
    /\ InitTool
    /\ lastResult = Plain("new")
    /\ InitRenderer

NextSegments ==
    \/ Update
    \/ Close

SpecSegments == InitSegments /\ [][NextSegments]_vars

(***************************************************************************)
(* SpecRenderer: SvgPathRenderer.renderPaths and clear between the calls    *)
(* that create, change and remove paths.                                    *)
(***************************************************************************)
\* a caller moves the handleOut of the first anchor of a path
MoveHandle ==
    \E id \in PathIds, absolutePosition \in ApiPositions :
        /\ heap[id].anchorPoints # << >>
        /\ UpdateHandle(id, 0, TRUE, absolutePosition)
        /\ UNCHANGED view

\* the renderer after its constructor, given the PathManager: the paths of the
\* page are imported and rendered (autoImportExistingPaths)
InitRendered ==
    /\ \E ds \in InitialPathData :
          LET page == importAll(ds, 1)
          IN  /\ heap = page.heap
              /\ paths = page.paths
              /\ nextId = page.nextId
    /\ pathData = << >>
    /\ InitTool
    /\ lastResult = Plain("new")
    /\ pathsGroup = renderPaths(heap, paths, << >>, << >>).pathsGroup
    /\ pathVersions = renderPaths(heap, paths, << >>, << >>).pathVersions
    /\ rendered = Snapshot(heap, paths)
    /\ anchorPointsGroup = {}
    /\ handlesGroup = {}
    /\ previewGroup = {}
    /\ showAllHandles = FALSE
    /\ mode = "pen"

\* renderer.update(pathManager), with no path being drawn
UpdateView ==
    /\ Show(update(heap, paths, Null, showAllHandles, pathsGroup, pathVersions))
    /\ lastResult' = Plain("update")
    /\ calls' = << >>
    /\ UNCHANGED << engine, pathData, tool, previewGroup, showAllHandles, mode >>

NextRenderer ==
    \/ RenderPaths
    \/ UpdateView
    \/ Clear
    \/ Create
    \/ Remove
    \/ Add
    \/ RemoveAnchor
    \/ Close
    \/ MoveHandle

SpecRenderer == InitRendered /\ [][NextRenderer]_vars

(***************************************************************************)
(* SpecUpdate: SvgPathRenderer.update between the calls that create, change *)
(* and remove paths; clear is never called.                                 *)
(***************************************************************************)
NextUpdate ==
    \/ UpdateView
    \/ Create
    \/ Remove
    \/ Add
    \/ RemoveAnchor
    \/ Close
    \/ MoveHandle

SpecUpdate == InitRendered /\ [][NextUpdate]_vars

(***************************************************************************)
(* CanvasPathRenderer (renderer/CanvasPathRenderer), next to the handle     *)
(* drawing of SvgPathRenderer.  A handle is drawn as a line and an endpoint *)
(* circle; the model keeps the endpoints: the anchor and the centre.  A     *)
(* path is drawn as calls on the 2D context; the model keeps the calls      *)
(* that extend the outline: the call, its control points and the point it   *)
(* ends at.                                                                 *)
(***************************************************************************)
Endpoint(point, handlePos) == [anchor |-> point.id, at |-> handlePos]

\* SvgPathRenderer.renderPointHandles(point): the endpoint circles appended
renderPointHandles(point) ==
    (IF shown(point.handleIn)
     THEN LET handlePos == getAbsoluteHandlePosition(point, FALSE)
          IN  IF handlePos # Null THEN {Endpoint(point, handlePos[1])} ELSE {}
     ELSE {})
    \cup
    (IF shown(point.handleOut)
     THEN LET handlePos == getAbsoluteHandlePosition(point, TRUE)
          IN  IF handlePos # Null THEN {Endpoint(point, handlePos[1])} ELSE {}
     ELSE {})

\* CanvasPathRenderer.renderHandle(point): the centres of the arcs drawn
canvasRenderHandle(point) ==
    LET handleInPos == IF point.handleIn # Null
                       THEN getAbsoluteHandlePosition(point, TRUE) ELSE Null
        handleOutPos == IF point.handleOut # Null
                        THEN getAbsoluteHandlePosition(point, FALSE) ELSE Null
    IN  (IF handleInPos # Null /\ shown(point.handleIn)
         THEN {Endpoint(point, handleInPos[1])} ELSE {})
        \cup
        (IF handleOutPos # Null /\ shown(point.handleOut)
         THEN {Endpoint(point, handleOutPos[1])} ELSE {})

\* the anchors renderHandles shows handles for (the same lines in both
\* renderers): all with showAllHandles, the selected ones, and the last two
\* anchors of the path being drawn
showHandles(h, order, currentDrawingPath, all) ==
    UNION {{a \in {h[order[i]].anchorPoints[k] : k \in 1..Len(h[order[i]].anchorPoints)} :
               \E k \in 1..Len(h[order[i]].anchorPoints) :
                   /\ h[order[i]].anchorPoints[k] = a
                   /\ \/ all
                      \/ a.selected
                      \/ /\ currentDrawingPath = Some(order[i])
                         /\ k >= Len(h[order[i]].anchorPoints) - 1} :
              i \in 1..Len(order)}

\* SvgPathRenderer.renderHandles: the endpoint circles in the handles layer
svgRenderHandles(h, order, currentDrawingPath, all) ==
    UNION {renderPointHandles(a) : a \in showHandles(h, order, currentDrawingPath, all)}

\* CanvasPathRenderer.renderHandles: the endpoint arcs on the canvas
canvasRenderHandles(h, order, currentDrawingPath, all) ==
    UNION {canvasRenderHandle(a) : a \in showHandles(h, order, currentDrawingPath, all)}

\* a call on the 2D context that extends the outline
Command(cmd, controlPoint1, controlPoint2, point) ==
    [cmd |-> cmd, controlPoint1 |-> controlPoint1, controlPoint2 |-> controlPoint2,
     point |-> point]

\* the loop of renderPath over the segments: lineTo for a line, bezierCurveTo
\* for a segment that has both control points, nothing otherwise
RECURSIVE drawSegments(_)
drawSegments(segments) ==
    IF segments = << >>
    THEN << >>
    ELSE LET segment == Head(segments)
         IN  (IF segment.type = "line"
              THEN << Command("lineTo", Null, Null, segment.endPoint.position) >>
              ELSE IF segment.controlPoint1 # Null /\ segment.controlPoint2 # Null
                   THEN << Command("bezierCurveTo", segment.controlPoint1,
                                   segment.controlPoint2, segment.endPoint.position) >>
                   ELSE << >>)
             \o drawSegments(Tail(segments))

\* CanvasPathRenderer.renderPath(path, pathManager): nothing for a path without
\* segments; moveTo the first anchor, then the segments
canvasRenderPath(path) ==
    IF path.anchorPoints = << >>
    THEN << >>
    ELSE LET segments == getSegments(path)
         IN  IF segments = << >>
             THEN << >>
             ELSE << Command("moveTo", Null, Null, path.anchorPoints[1].position) >>
                      \o drawSegments(segments)

\* the result of the two renderHandles calls: the path being drawn that was
\* handed to them, and the endpoints each renderer drew
HandlesResult(currentDrawingPath, svg, canvas) ==
    [op |-> "renderHandles", error |-> "none", path |-> 0, index |-> 0,
     t |-> Frac(0, 1), flag |-> FALSE, point |-> Origin,
     currentDrawingPath |-> currentDrawingPath, svg |-> svg, canvas |-> canvas]

\* the result of CanvasPathRenderer.renderPaths: the calls made for each path
PathsResult(drawn) ==
    [op |-> "canvasRenderPaths", error |-> "none", path |-> 0, index |-> 0,
     t |-> Frac(0, 1), flag |-> FALSE, point |-> Origin, drawn |-> drawn]

\* renderHandles(pathManager, currentDrawingPath) on an SvgPathRenderer and on a
\* CanvasPathRenderer that have the same PathManager and the same showAllHandles
RenderHandles ==
    \E currentDrawingPath \in {Null} \cup {Some(id) : id \in PathIds} :
        /\ handlesGroup' = renderHandles(heap, paths, currentDrawingPath, showAllHandles)
        /\ lastResult' =
              HandlesResult(currentDrawingPath,
                            svgRenderHandles(heap, paths, currentDrawingPath, showAllHandles),
                            canvasRenderHandles(heap, paths, currentDrawingPath,
                                                showAllHandles))
        /\ calls' = << >>
        /\ UNCHANGED << engine, pathData, tool, pathsGroup, anchorPointsGroup,
                        previewGroup, pathVersions, showAllHandles, rendered, mode >>

\* canvasRenderer.renderPaths(pathManager)
CanvasRenderPaths ==
    /\ lastResult' = PathsResult([id \in PathIds |-> canvasRenderPath(heap[id])])
    /\ calls' = << >>
    /\ UNCHANGED << engine, pathData, tool, view >>

(***************************************************************************)
(* SpecCanvas: the two renderers over one PathManager.  The path has three  *)
(* anchors; its first segment starts with any handleOut and ends with any   *)
(* handleIn (absent, hidden or visible), so anchors with one handle and     *)
(* segments with one control point are there from the start; updateHandle   *)
(* on the first anchor gives it both handles.                               *)
(***************************************************************************)
InitCanvas ==
    /\ \E hOut \in InitialHandles, hIn \in InitialHandles :
          heap = (1 :> [VectorPath(1) EXCEPT
                           !.anchorPoints =
                               << AnchorPoint(2, Pt(0, 0), Null, hOut, Mirrored),
                                  AnchorPoint(3, Pt(48, 0), hIn, Null, Mirrored),
                                  AnchorPoint(4, Pt(48, 64), Null, Null, Mirrored) >>])
    /\ paths = << 1 >>
    /\ nextId = 5
    /\ pathData = << >>
    /\ InitTool
    /\ lastResult = Plain("new")
    /\ pathsGroup = << >>
    /\ pathVersions = << >>
    /\ rendered = << >>
    /\ anchorPointsGroup = {}
    /\ handlesGroup = {}
    /\ previewGroup = {}
    /\ showAllHandles \in BOOLEAN
    /\ mode = "pen"

NextCanvas ==
    \/ RenderHandles
    \/ CanvasRenderPaths
    \/ MoveHandle
    \/ Close

SpecCanvas == InitCanvas /\ [][NextCanvas]_vars

(***************************************************************************)
(* SpecCodec: one import of path data.  The data is well formed, or well    *)
(* formed data with one token spoilt: a number replaced by something that   *)
(* is no number, a command letter replaced by an unknown one, or a number   *)
(* left out.  The collection is empty or holds the two paths of Dots.       *)
(***************************************************************************)
\* M 0 0 L 48 0 L 48 64 Z
ClosedTriangle == Triangle \o << Cmd("Z") >>

\* M 0 0 L 10 L 10 10
MissingCoordinate ==
    << Cmd("M"), Num(0), Num(0), Cmd("L"), Num(10), Cmd("L"), Num(10), Num(10) >>

WellFormedPathData == {Triangle, Arch, ClosedTriangle}

Spoilt(d) ==
    {[d EXCEPT ![k] = BadNum] : k \in {j \in 1..Len(d) : d[j].type = "num"}}
    \cup {[d EXCEPT ![k] = Cmd("X")] : k \in {j \in 1..Len(d) : d[j].type = "cmd"}}
    \cup {RemoveAt(d, k - 1) : k \in {j \in 1..Len(d) : d[j].type = "num"}}

PathDataInputs ==
    WellFormedPathData \cup UNION {Spoilt(d) : d \in WellFormedPathData}
        \cup {MissingCoordinate}

InitCodec ==
    /\ \E ds \in {<< >>, Dots} :
          LET page == importAll(ds, 1)
          IN  /\ heap = page.heap
              /\ paths = page.paths
              /\ nextId = page.nextId
    /\ pathData \in PathDataInputs
    /\ InitTool
    /\ lastResult = Plain("new")
    /\ InitRenderer

ImportPathData == ImportFromSVG(pathData) /\ UNCHANGED view

NextCodec == ImportPathData

SpecCodec == InitCodec /\ [][NextCodec]_vars

(***************************************************************************)
(* SpecRoundTrip: path data is imported into an empty collection, the path  *)
(* is exported with toSVGPath, and what was exported is imported again.     *)
(***************************************************************************)
\* M 0 0 L 100 100 C 120 80, 150 80, 170 100
ReadmeExample ==
    << Cmd("M"), Num(0), Num(0), Cmd("L"), Num(100), Num(100),
       Cmd("C"), Num(120), Num(80), Num(150), Num(80), Num(170), Num(100) >>

\* m 8 6 l 40 0 c 0 10 10 20 20 20
RelativeCommands ==
    << Cmd("m"), Num(8), Num(6), Cmd("l"), Num(40), Num(0),
       Cmd("c"), Num(0), Num(10), Num(10), Num(20), Num(20), Num(20) >>

\* M 0 0 H 48 v 64 h -48
AxisAligned ==
    << Cmd("M"), Num(0), Num(0), Cmd("H"), Num(48), Cmd("v"), Num(64), Cmd("h"), Num(0 - 48) >>

\* M 0 0 C 0 48 48 48 48 0 S 96 -48 96 0
SmoothAfterCubic ==
    << Cmd("M"), Num(0), Num(0), Cmd("C"), Num(0), Num(48), Num(48), Num(48), Num(48), Num(0),
       Cmd("S"), Num(96), Num(0 - 48), Num(96), Num(0) >>

\* M 0 0 L 48 0 s 12 20 0 64
SmoothAfterLine ==
    << Cmd("M"), Num(0), Num(0), Cmd("L"), Num(48), Num(0),
       Cmd("s"), Num(12), Num(20), Num(0), Num(64) >>

\* M 0 0 48 0 48 64: coordinate groups after M are linetos
RepeatedGroups ==
    << Cmd("M"), Num(0), Num(0), Num(48), Num(0), Num(48), Num(64) >>

\* M 0 0 L 48 0 L 48 64 L 0 0 Z: the last point is the first
ReturningTriangle == Triangle \o << Cmd("L"), Num(0), Num(0), Cmd("Z") >>

\* M 0 0 L 48 0 L 48 64 C 48 100 0 100 0 0 Z: a curve leads back to the first point
ClosedByCurve ==
    Triangle \o << Cmd("C"), Num(48), Num(100), Num(0), Num(100), Num(0), Num(0), Cmd("Z") >>

\* M 0 0 C 0 48 48 48 48 0 L 48 64 z
ClosedArch == Arch \o << Cmd("z") >>

RoundTripInputs ==
    {ReadmeExample, Triangle, Arch, ClosedTriangle, RelativeCommands, AxisAligned,
     SmoothAfterCubic, SmoothAfterLine, RepeatedGroups, ReturningTriangle, ClosedByCurve,
     ClosedArch, << Cmd("M"), Num(8), Num(6) >>}

InitRoundTrip ==
    /\ heap = << >>
    /\ paths = << >>
    /\ nextId = 1
    /\ pathData \in RoundTripInputs
    /\ InitTool
    /\ lastResult = Plain("new")
    /\ InitRenderer

Export == \E id \in PathIds : ToSVGPath(id) /\ UNCHANGED view

Reimport == ImportInto(pathData) /\ UNCHANGED view

NextRoundTrip ==
    \/ Reimport
    \/ Export

SpecRoundTrip == InitRoundTrip /\ [][NextRoundTrip]_vars

(***************************************************************************)
(* Properties.  A step of an operation is recognised by the operation that  *)
(* lastResult names after it; heap is the state before the call and heap'   *)
(* the state after it.                                                     *)
(***************************************************************************)
\* the path an operation was called on, before and after the call
Before(r) == heap[r.path]

After(r) == heap'[r.path]

C3_RejectedMutationChangesNothing ==
    [][/\ (/\ lastResult'.op = "insertAnchorPoint"
           /\ \/ lastResult'.index < 0
              \/ lastResult'.index > Len(Before(lastResult').anchorPoints))
          => (lastResult'.error = "InvalidIndex" /\ heap' = heap /\ paths' = paths)
       /\ (/\ lastResult'.op = "addPointToPath"
           /\ \/ lastResult'.index < 0
              \/ lastResult'.index >= Len(getSegments(Before(lastResult'))))
          => (/\ lastResult'.error = "Invalid segment index"
              /\ heap' = heap
              /\ paths' = paths)]_vars

\* C3 witness: addPointToPath has thrown for the segment index one past the last
\* segment of a path that has segments
C3_Witness ==
    /\ lastResult.op = "addPointToPath"
    /\ lastResult.error = "Invalid segment index"
    /\ lastResult.index = Len(getSegments(heap[lastResult.path]))
    /\ lastResult.index > 0

\* the three ways path data is malformed, read off the tokens: a token that is no
\* number, an unknown command letter, and a command followed by a number of
\* coordinates that is no multiple (at least one) of what the command takes
MalformedNumber(d) == \E k \in 1..Len(d) : d[k].type = "bad"

UnknownCommand(d) == \E k \in 1..Len(d) : d[k].type = "cmd" /\ ArgCount(d[k].cmd) < 0

NumbersAfter(d, k) ==
    LET stop == {j \in (k + 1)..(Len(d) + 1) : j > Len(d) \/ d[j].type # "num"}
    IN  (CHOOSE j \in stop : \A i \in stop : j <= i) - k - 1

OddArgumentCount(d) ==
    \E k \in 1..Len(d) :
        /\ d[k].type = "cmd"
        /\ ArgCount(d[k].cmd) >= 0
        /\ IF ArgCount(d[k].cmd) = 0
           THEN NumbersAfter(d, k) # 0
           ELSE NumbersAfter(d, k) = 0 \/ NumbersAfter(d, k) % ArgCount(d[k].cmd) # 0

\* C4: an import of path data with a malformed number, an unknown command letter
\* or an odd argument count fails with MalformedPathData and leaves the
\* collection, and every path in it, as it was: nothing is added.
C4_MalformedImportIsAtomic ==
    [][(/\ lastResult'.op = "importFromSVG"
        /\ \/ MalformedNumber(pathData)
           \/ UnknownCommand(pathData)
           \/ OddArgumentCount(pathData))
       => (/\ lastResult'.error = "MalformedPathData"
           /\ paths' = paths
           /\ heap' = heap
           /\ nextId' = nextId)]_vars

\* C4 witness: the import of M 0 0 L 10 L 10 10 into a collection of two paths has
\* failed at the second L, the token after the lone coordinate
C4_Witness ==
    /\ pathData = MissingCoordinate
    /\ lastResult.op = "importFromSVG"
    /\ lastResult.error = "MalformedPathData"
    /\ lastResult.index = 6
    /\ Len(paths) = 2

(***************************************************************************)
(* The De Casteljau split of the cubic (p0, c1, c2, p3) at t: the halves    *)
(* (p0, a, aa, m) and (m, bb, b, p3).                                      *)
(***************************************************************************)
DeCasteljau(p0, c1, c2, p3, t) ==
    LET a == lerp(p0, c1, t)
        c == lerp(c1, c2, t)
        b == lerp(c2, p3, t)
        aa == lerp(a, c, t)
        bb == lerp(c, b, t)
    IN  [a |-> a, aa |-> aa, m |-> lerp(aa, bb, t), bb |-> bb, b |-> b]

\* the segment addPointToPath was called on, in the path before the call
SplitSegment(r) == getSegments(Before(r))[r.index + 1]

\* the split of that segment at the t of the call
Split(r) ==
    DeCasteljau(SplitSegment(r).startPoint.position, SplitSegment(r).controlPoint1[1],
                SplitSegment(r).controlPoint2[1], SplitSegment(r).endPoint.position, r.t)

\* addPointToPath has inserted a point into a cubic segment with both control points
CubicInsertion(r) ==
    /\ r.op = "addPointToPath"
    /\ r.error = "none"
    /\ SplitSegment(r).type = "cubic"
    /\ SplitSegment(r).controlPoint1 # Null
    /\ SplitSegment(r).controlPoint2 # Null

\* is the segment the cubic from p0 to p3 with the control points c1 and c2
IsCubic(segment, p0, c1, c2, p3) ==
    /\ segment.startPoint.position = p0
    /\ segment.controlPoint1 = Some(c1)
    /\ segment.controlPoint2 = Some(c2)
    /\ segment.endPoint.position = p3

\* C5 as stated: after a point is inserted at t into a cubic segment (p0, c1, c2,
\* p3), the segment is replaced by the two De Casteljau halves (p0, a, aa, m) and
\* (m, bb, b, p3), m the curve point at t.
C5_InsertionSplitsExactly ==
    [][CubicInsertion(lastResult') =>
          /\ Len(getSegments(After(lastResult'))) =
                 Len(getSegments(Before(lastResult'))) + 1
          /\ IsCubic(getSegments(After(lastResult'))[lastResult'.index + 1],
                     SplitSegment(lastResult').startPoint.position,
                     Split(lastResult').a, Split(lastResult').aa, Split(lastResult').m)
          /\ IsCubic(getSegments(After(lastResult'))[lastResult'.index + 2],
                     Split(lastResult').m, Split(lastResult').bb, Split(lastResult').b,
                     SplitSegment(lastResult').endPoint.position)]_vars

\* C5 witness: a point was inserted at t = 1/2 into the cubic M 0 0 C 0 48 48 48
\* 48 0, at the curve point (24, 36)
C5_Witness ==
    /\ lastResult.op = "addPointToPath"
    /\ lastResult.error = "none"
    /\ lastResult.index = 0
    /\ lastResult.t = Frac(1, 2)
    /\ Len(heap[lastResult.path].anchorPoints) = 4
    /\ heap[lastResult.path].anchorPoints[2].position = Pt(24, 36)
    /\ heap[lastResult.path].anchorPoints[1].handleOut = Some(Handle(Pt(0, 48), TRUE))

\* C6 as stated: after an insertion into a cubic segment the new anchor has both
\* handles visible and mirrorMode Independent, the start anchor's handleOut and
\* the end anchor's handleIn are the split control points a and b relative to
\* their anchors, and nothing else in the path has changed.
C6_InsertionRewritesOnlySplitHandles ==
    [][CubicInsertion(lastResult') =>
          LET i == lastResult'.index + 1
              old == Before(lastResult').anchorPoints
              new == After(lastResult').anchorPoints
              n == Len(old)
              j == (i % n) + 1
              start == old[i]
              end == old[j]
          IN  /\ Len(new) = n + 1
              /\ shown(new[i + 1].handleIn)
              /\ shown(new[i + 1].handleOut)
              /\ new[i + 1].mirrorMode = Independent
              /\ After(lastResult').closed = Before(lastResult').closed
              /\ \A k \in 1..n :
                    LET was == old[k]
                        is == new[IF k <= i THEN k ELSE k + 1]
                    IN  /\ is.id = was.id
                        /\ is.position = was.position
                        /\ is.mirrorMode = was.mirrorMode
                        /\ is.handleOut =
                               IF k = i
                               THEN Some(Handle(subtract(Split(lastResult').a,
                                                         start.position), TRUE))
                               ELSE was.handleOut
                        /\ is.handleIn =
                               IF k = j
                               THEN Some(Handle(subtract(Split(lastResult').b,
                                                         end.position), TRUE))
                               ELSE was.handleIn]_vars

\* C6 witness: the anchor inserted at t = 1/2 into the cubic M 0 0 C 0 48 48 48
\* 48 0 is Mirrored, with the default handles along the chord
C6_Witness ==
    /\ lastResult.op = "addPointToPath"
    /\ lastResult.error = "none"
    /\ lastResult.index = 0
    /\ lastResult.t = Frac(1, 2)
    /\ Len(heap[lastResult.path].anchorPoints) = 4
    /\ heap[lastResult.path].anchorPoints[2].mirrorMode = Mirrored
    /\ heap[lastResult.path].anchorPoints[2].handleOut = Some(Handle(Pt(50, 0), TRUE))
    /\ heap[lastResult.path].anchorPoints[3].handleIn = Some(Handle(Pt(0, 48), TRUE))

(***************************************************************************)
(* updateHandle(anchor, isOutHandle, cursor): lastResult.flag is isOutHandle *)
(* and lastResult.point the cursor.                                        *)
(***************************************************************************)
\* the anchor updateHandle was called on, before and after the call
AnchorBefore(r) == Before(r).anchorPoints[r.index + 1]

AnchorAfter(r) == After(r).anchorPoints[r.index + 1]

\* the handle the call moved and the other handle of the anchor
MovedHandle(anchor, r) == IF r.flag THEN anchor.handleOut ELSE anchor.handleIn

OtherHandle(anchor, r) == IF r.flag THEN anchor.handleIn ELSE anchor.handleOut

Cross(v, w) == v.x * w.y - v.y * w.x

Dot(v, w) == v.x * w.x + v.y * w.y

C8_AngleLockedKeepsLength ==
    [][(/\ lastResult'.op = "updateHandle"
        /\ AnchorBefore(lastResult').mirrorMode = AngleLocked
        /\ OtherHandle(AnchorBefore(lastResult'), lastResult') # Null)
       => /\ OtherHandle(AnchorAfter(lastResult'), lastResult') # Null
          /\ Cross(OtherHandle(AnchorAfter(lastResult'), lastResult')[1].position,
                   MovedHandle(AnchorAfter(lastResult'), lastResult')[1].position) = 0
          /\ Dot(OtherHandle(AnchorAfter(lastResult'), lastResult')[1].position,
                 MovedHandle(AnchorAfter(lastResult'), lastResult')[1].position) <= 0
          /\ lengthSq(OtherHandle(AnchorAfter(lastResult'), lastResult')[1].position) =
                 lengthSq(OtherHandle(AnchorBefore(lastResult'), lastResult')[1].position)
       ]_vars

\* C8 witness: the out handle of an AngleLocked anchor was moved to (3, 4), length
\* 5, and the in handle is (-6, -8), length 10
C8_Witness ==
    /\ lastResult.op = "updateHandle"
    /\ lastResult.flag
    /\ heap[lastResult.path].anchorPoints[lastResult.index + 1].mirrorMode = AngleLocked
    /\ heap[lastResult.path].anchorPoints[lastResult.index + 1].handleOut =
           Some(Handle(Pt(3, 4), TRUE))
    /\ shown(heap[lastResult.path].anchorPoints[lastResult.index + 1].handleIn)
    /\ heap[lastResult.path].anchorPoints[lastResult.index + 1].handleIn[1].position =
           Pt(0 - 6, 0 - 8)

\* C9: updateHandle on an Independent anchor changes only the moved handle: the
\* other handle, vector and visibility, is as it was, and an other handle that
\* was null is null still; the moved handle is visible at cursor - position.
C9_IndependentLeavesOther ==
    [][(/\ lastResult'.op = "updateHandle"
        /\ AnchorBefore(lastResult').mirrorMode = Independent)
       => /\ OtherHandle(AnchorAfter(lastResult'), lastResult') =
                 OtherHandle(AnchorBefore(lastResult'), lastResult')
          /\ MovedHandle(AnchorAfter(lastResult'), lastResult') =
                 Some(Handle(subtract(lastResult'.point,
                                      AnchorBefore(lastResult').position), TRUE))
          /\ AnchorAfter(lastResult').position = AnchorBefore(lastResult').position
          /\ AnchorAfter(lastResult').mirrorMode = Independent]_vars

\* C9 witness: the in handle of an Independent anchor was moved to (10, 0) and the
\* anchor has no out handle
C9_Witness ==
    /\ lastResult.op = "updateHandle"
    /\ ~lastResult.flag
    /\ heap[lastResult.path].anchorPoints[lastResult.index + 1].mirrorMode = Independent
    /\ heap[lastResult.path].anchorPoints[lastResult.index + 1].handleIn =
           Some(Handle(Pt(10, 0), TRUE))
    /\ heap[lastResult.path].anchorPoints[lastResult.index + 1].handleOut = Null

\* C10: getSegments(path) is empty for a path of 0 or 1 anchors; for n >= 2
\* anchors it has n - 1 segments when the path is open and n when it is closed,
\* and segment i runs from anchorPoints[i] to anchorPoints[(i + 1) mod n]
\* (indices from 0), so the last segment of a closed path ends at the first anchor.
C10_SegmentsFollowAnchors ==
    \A id \in DOMAIN heap :
        LET a == heap[id].anchorPoints
            n == Len(a)
            segments == getSegments(heap[id])
        IN  IF n < 2
            THEN segments = << >>
            ELSE /\ Len(segments) = IF heap[id].closed THEN n ELSE n - 1
                 /\ \A i \in 0..(Len(segments) - 1) :
                       /\ segments[i + 1].startPoint = a[i + 1]
                       /\ segments[i + 1].endPoint = a[((i + 1) % n) + 1]

\* C10 witness: a closed path of 4 anchors, whose 4th segment ends at the first anchor
C10_Witness ==
    \E id \in DOMAIN heap :
        /\ heap[id].closed
        /\ Len(heap[id].anchorPoints) = 4
        /\ Len(getSegments(heap[id])) = 4
        /\ getSegments(heap[id])[4].endPoint = heap[id].anchorPoints[1]

Queries == {"getAllPaths", "getSegments", "getAbsoluteHandlePosition"}

\* C12: getAllPaths, getSegments(path) and getAbsoluteHandlePosition(anchor,
\* isOutHandle) are read-only: a call in any reachable state, in the middle of
\* a drag as well, leaves the collection and every path's anchors, handles,
\* mirror modes and closed flag as they were.
C12_QueriesAreReadOnly ==
    [][lastResult'.op \in Queries =>
          /\ paths' = paths
          /\ heap' = heap
          /\ nextId' = nextId
          /\ tool' = tool]_vars

\* C12 witness: getAbsoluteHandlePosition has just returned the handleOut of the
\* anchor under the cursor in the middle of a drag
C12_Witness ==
    /\ lastResult.op = "getAbsoluteHandlePosition"
    /\ lastResult.flag
    /\ isDragging
    /\ state = DraggingHandle
    /\ currentAnchorPoint # Null
    /\ currentPath = Some(lastResult.path)
    /\ heap[lastResult.path].anchorPoints[lastResult.index + 1].id = currentAnchorPoint[1]

\* the identifiers in use: those of the paths and of their anchors
AnchorIds(path) == {path.anchorPoints[i].id : i \in 1..Len(path.anchorPoints)}

UsedIds(h) == DOMAIN h \cup UNION {AnchorIds(h[id]) : id \in DOMAIN h}

UniqueIds(h, order) ==
    /\ \A i, j \in 1..Len(order) : order[i] = order[j] => i = j
    /\ \A id \in DOMAIN h :
          /\ h[id].id = id
          /\ \A i, j \in 1..Len(h[id].anchorPoints) :
                 h[id].anchorPoints[i].id = h[id].anchorPoints[j].id => i = j

\* C13: across createPath, removePath, addAnchorPoint, insertAnchorPoint, the
\* removal of an anchor and import, no two paths of the collection share an
\* id and no two anchors of one path share an id; and an id once assigned is
\* never assigned again, not even after its path or anchor was removed: every
\* id that a step brings into use was never handed out before.
C13_IdsAreUniqueAndNeverReused ==
    [][/\ UniqueIds(heap, paths)
       /\ UniqueIds(heap', paths')
       /\ \A id \in UsedIds(heap) : id < nextId
       /\ nextId' >= nextId
       /\ \A id \in UsedIds(heap') \ UsedIds(heap) : id >= nextId /\ id < nextId']_vars

\* C13 witness: a path was removed, and createPath has then made a path with
\* an id that no path or anchor had before
C13_Witness ==
    /\ lastResult.op = "createPath"
    /\ lastResult.path = 5
    /\ 5 \in PathIds
    /\ 1 \notin DOMAIN heap
    /\ nextId = 6

\* two segment sequences with the same length and, segment by segment, the
\* same type, endpoints and control points
SameGeometry(s1, s2) ==
    /\ Len(s1) = Len(s2)
    /\ \A i \in 1..Len(s1) :
          /\ s1[i].type = s2[i].type
          /\ s1[i].startPoint.position = s2[i].startPoint.position
          /\ s1[i].endPoint.position = s2[i].endPoint.position
          /\ s1[i].controlPoint1 = s2[i].controlPoint1
          /\ s1[i].controlPoint2 = s2[i].controlPoint2

\* C14: export followed by import is a geometric round trip: when the path
\* data that toSVGPath produced for an imported path is imported, the import
\* succeeds and the new path has the same number of segments as the exported
\* one, with the same types, endpoints and control points, and is closed
\* exactly when the exported one is.
C14_ExportImportRoundTrip ==
    [][(lastResult.op = "toSVGPath" /\ lastResult'.op = "importFromSVG") =>
          /\ lastResult'.error = "none"
          /\ SameGeometry(getSegments(heap[lastResult.path]),
                          getSegments(heap'[lastResult'.path]))
          /\ heap'[lastResult'.path].closed = heap[lastResult.path].closed]_vars

\* C14 witness: path data with a smooth or relative command was imported, the
\* path was exported (the path data is now another text) and the export was
\* imported again: two paths with a curve, of equal geometry
C14_Witness ==
    /\ lastResult.op = "importFromSVG"
    /\ lastResult.error = "none"
    /\ Len(paths) = 2
    /\ pathData \notin RoundTripInputs
    /\ pathData = toSVGPath(heap[paths[1]])
    /\ \E i \in 1..Len(getSegments(heap[paths[2]])) :
          getSegments(heap[paths[2]])[i].type = "cubic"
    /\ SameGeometry(getSegments(heap[paths[1]]), getSegments(heap[paths[2]]))

Handlers == {"onMouseDown", "onMouseMove", "onMouseUp", "onKeyDown", "onKeyUp", "reset"}

\* are the elements of the sequence ids strictly increasing
Increasing(ids) == \A i, j \in 1..Len(ids) : i < j => ids[i] < ids[j]

\* C16: PenTool changes a path only through the mutation API: whatever an event
\* handler does to a path is the effect of calls of PathManager's mutations and
\* of HandleManager.updateHandle / createDefaultHandles.  No such call reorders
\* the anchors of a path or writes mirrorMode, and addAnchorPoint makes a
\* Mirrored anchor; so across a handler the anchors that stay keep their
\* relative order and their mirrorMode, and an anchor that is new is Mirrored.
C16_HandlersUseMutationApiOnly ==
    [][lastResult'.op \in Handlers =>
          \A id \in DOMAIN heap \cap DOMAIN heap' :
              LET before == heap[id].anchorPoints
                  after == heap'[id].anchorPoints
              IN  /\ \A i, j \in 1..Len(before) : \A k, l \in 1..Len(after) :
                         (i < j /\ before[i].id = after[k].id /\ before[j].id = after[l].id)
                             => k < l
                  /\ \A i \in 1..Len(before) : \A k \in 1..Len(after) :
                         before[i].id = after[k].id =>
                             before[i].mirrorMode = after[k].mirrorMode
                  /\ \A k \in 1..Len(after) :
                         after[k].id \notin AnchorIds(heap[id]) =>
                             after[k].mirrorMode = Mirrored]_vars

\* C16 witness: a mouse-down on the first anchor of the open path M 0 0 L 48 0
\* L 48 64 made it the current path with its anchors in the opposite order
C16_Witness ==
    /\ lastResult.op = "onMouseDown"
    /\ state = Drawing
    /\ currentPath # Null
    /\ Len(heap[currentPath[1]].anchorPoints) = 3
    /\ heap[currentPath[1]].anchorPoints[1].position = Pt(48, 64)
    /\ heap[currentPath[1]].anchorPoints[3].position = Pt(0, 0)
    /\ ~Increasing([i \in 1..3 |-> heap[currentPath[1]].anchorPoints[i].id])

\* a drag is under way: a mouse-down has started a new point on the current path
DragUnderWay == isDragging /\ dragStartPoint # Null /\ currentPath # Null

\* the last anchor of a path (of a path that has one)
LastAnchor(path) == path.anchorPoints[Len(path.anchorPoints)]

\* across the step that ends a drag, is the last anchor of the current path the
\* one anchor that the drag has appended: appended by this step when the drag
\* had no anchor yet, and the drag's anchor otherwise
OneAnchorAppended ==
    LET before == heap[currentPath[1]].anchorPoints
        after == heap'[currentPath[1]].anchorPoints
    IN  /\ after # << >>
        /\ after[Len(after)].position = dragStartPoint[1]
        /\ IF currentAnchorPoint = Null
           THEN /\ Len(after) = Len(before) + 1
                /\ after[Len(after)].id \notin AnchorIds(heap[currentPath[1]])
           ELSE /\ Len(after) = Len(before)
                /\ after[Len(after)].id = currentAnchorPoint[1]

\* C17: a click without drag adds a straight point: when a mouse-down that
\* started a new point on the current path is followed by a mouse-up less
\* than 2 units from it, exactly one anchor has been appended to the current
\* path, at the position of the mouse-down, and it has no visible handle.
C17_ClickAddsStraightPoint ==
    [][(/\ lastResult'.op = "onMouseUp"
        /\ DragUnderWay
        /\ distanceSq(dragStartPoint[1], lastResult'.point) < clickDistance * clickDistance) =>
          /\ OneAnchorAppended
          /\ ~shown(LastAnchor(heap'[currentPath[1]]).handleIn)
          /\ ~shown(LastAnchor(heap'[currentPath[1]]).handleOut)]_vars

\* C17 witness: mouse-down, a mouse-move and mouse-up, all three at (8, 6): the
\* anchor appended at (8, 6) has a visible handleOut, of length 0
C17_Witness ==
    /\ lastResult.op = "onMouseUp"
    /\ lastResult.point = Pt(8, 6)
    /\ state = Drawing
    /\ currentPath # Null
    /\ heap[currentPath[1]].anchorPoints # << >>
    /\ LastAnchor(heap[currentPath[1]]).position = Pt(8, 6)
    /\ LastAnchor(heap[currentPath[1]]).handleOut = Some(Handle(Origin, TRUE))

\* C18: a click-and-drag creates one curve point: when a mouse-down that
\* started a new point is followed by a mouse-up 2 or more units from it,
\* exactly one anchor has been appended to the current path, at the position of
\* the mouse-down, and its handleOut is visible with the vector from the
\* mouse-down position to the last cursor position (that of the mouse-up, or
\* that of the mouse-move just before it).
C18_DragAddsCurvePoint ==
    [][(/\ lastResult'.op = "onMouseUp"
        /\ DragUnderWay
        /\ distanceSq(dragStartPoint[1], lastResult'.point) >= clickDistance * clickDistance) =>
          /\ OneAnchorAppended
          /\ \/ LastAnchor(heap'[currentPath[1]]).handleOut =
                    Some(Handle(subtract(lastResult'.point, dragStartPoint[1]), TRUE))
             \/ /\ lastResult.op = "onMouseMove"
                /\ LastAnchor(heap'[currentPath[1]]).handleOut =
                       Some(Handle(subtract(lastResult.point, dragStartPoint[1]), TRUE))]_vars

\* the anchors of the current path that are the anchor being dragged
DraggedAnchors(h, cur, anchor) ==
    IF cur = Null \/ anchor = Null
    THEN {}
    ELSE {h[cur[1]].anchorPoints[i] :
             i \in {j \in 1..Len(h[cur[1]].anchorPoints) :
                        h[cur[1]].anchorPoints[j].id = anchor[1]}}

\* C19: while Shift is held during a drag, after every mouse-move of the drag,
\* the one that creates the anchor and every later one, the handleOut of the
\* dragged anchor is the vector from the mouse-down position to the cursor
\* snapped to the nearest multiple of snapAngle.
C19_ShiftSnapsEveryMove ==
    [][(/\ lastResult'.op = "onMouseMove"
        /\ isShiftPressed
        /\ DragUnderWay) =>
          \A a \in DraggedAnchors(heap', currentPath', currentAnchorPoint') :
              a.handleOut =
                  Some(Handle(snapToAngle(subtract(lastResult'.point, dragStartPoint[1])),
                              TRUE))]_vars

\* C19 witness: with Shift held, a later mouse-move of a drag from (0, 0) to
\* (8, 6) has left the handleOut (8, 6), which is not at a multiple of 45 degrees
C19_Witness ==
    /\ lastResult.op = "onMouseMove"
    /\ lastResult.point = Pt(8, 6)
    /\ isShiftPressed
    /\ state = DraggingHandle
    /\ dragStartPoint = Some(Origin)
    /\ snapToAngle(Pt(8, 6)) = Pt(7, 7)
    /\ \E a \in DraggedAnchors(heap, currentPath, currentAnchorPoint) :
          /\ a.position = Origin
          /\ a.handleOut = Some(Handle(Pt(8, 6), TRUE))

\* C20: Alt gives independent handles without changing the anchor's mode for
\* good: a mouse-move with Alt held that updates a drag anchor that exists
\* already changes of that anchor the handleOut only, which becomes the visible
\* vector from the anchor to the cursor: its handleIn, its mirrorMode, its id
\* and its position are after the handler what they were before it, and so is
\* every other anchor of the path.
C20_AltMovesHandleOutOnly ==
    [][(/\ lastResult'.op = "onMouseMove"
        /\ isAltPressed
        /\ DragUnderWay
        /\ currentAnchorPoint # Null) =>
          LET before == heap[currentPath[1]].anchorPoints
              after == heap'[currentPath[1]].anchorPoints
          IN  /\ Len(after) = Len(before)
              /\ \A i \in 1..Len(before) :
                     IF before[i].id = currentAnchorPoint[1]
                     THEN after[i] =
                              [before[i] EXCEPT !.handleOut =
                                  Some(Handle(subtract(lastResult'.point, before[i].position),
                                              TRUE))]
                     ELSE after[i] = before[i]]_vars

\* C20 witness: Alt was pressed in the middle of a drag; the mouse-move after
\* it has moved the handleOut of the Mirrored drag anchor to (8, 6) and left
\* its handleIn where the move before had put it, at (0, 0)
C20_Witness ==
    /\ lastResult.op = "onMouseMove"
    /\ isAltPressed
    /\ state = DraggingHandle
    /\ \E a \in DraggedAnchors(heap, currentPath, currentAnchorPoint) :
          /\ a.mirrorMode = Mirrored
          /\ a.handleOut = Some(Handle(Pt(8, 6), TRUE))
          /\ a.handleIn = Some(Handle(Origin, TRUE))

\* the tool at rest: no current path, no drag
AtRest(st, cur, dragging, start, anchor) ==
    /\ st = Idle
    /\ cur = Null
    /\ ~dragging
    /\ start = Null
    /\ anchor = Null

\* C21: Escape finishes and Enter closes the current path.  After Escape the
\* path that was current has the anchors and the closed flag it had; after
\* Enter with a current path, that path is what closePath makes of it; after
\* either key, in any state of the tool, in the middle of a drag as well, the
\* tool is Idle with no current path, isDragging false, dragStartPoint and
\* currentAnchorPoint null; and a mouse-up or a mouse-move that follows the key
\* adds no anchor and changes none.
C21_EscapeFinishesEnterCloses ==
    [][/\ (lastResult'.op = "onKeyDown" /\ lastResult'.key \in {"Escape", "Enter"}) =>
             /\ AtRest(state', currentPath', isDragging', dragStartPoint', currentAnchorPoint')
             /\ paths' = paths
             /\ \A id \in DOMAIN heap :
                    /\ id \in DOMAIN heap'
                    /\ heap'[id] = IF lastResult'.key = "Enter" /\ currentPath = Some(id)
                                   THEN closePath(heap[id]).path
                                   ELSE heap[id]
       /\ (/\ lastResult.op = "onKeyDown"
           /\ lastResult.key \in {"Escape", "Enter"}
           /\ lastResult'.op \in {"onMouseUp", "onMouseMove"}) =>
             /\ heap' = heap
             /\ paths' = paths
             /\ nextId' = nextId]_vars

\* C21 witness: Enter was pressed in the middle of a drag on a path that has 4
\* anchors with it: the path is closed and the tool is at rest
C21_Witness ==
    /\ lastResult.op = "onKeyDown"
    /\ lastResult.key = "Enter"
    /\ AtRest(state, currentPath, isDragging, dragStartPoint, currentAnchorPoint)
    /\ \E i \in 1..Len(calls) :
          /\ calls[i].cb = "onPathModified"
          /\ heap[calls[i].path].closed
          /\ Len(heap[calls[i].path].anchorPoints) = 4
          /\ shown(LastAnchor(heap[calls[i].path]).handleOut)
    /\ \E i \in 1..Len(calls) : calls[i] = Call("onStateChange", Idle, 0, FALSE)

\* the invocations of one callback among those of the last operation
CallsOf(cs, cb) == SelectSeq(cs, LAMBDA c : c.cb = cb)

\* C22: onStateChange is called exactly when the state of the tool changes:
\* an operation that changes the value of getState() makes exactly one
\* onStateChange call, and it carries the new state; an operation that leaves
\* the state as it was makes none.  (Hence no call carries the state the tool
\* had already, and no two calls in a row carry the same state.)
C22_StateChangeCallback ==
    [][CallsOf(calls', "onStateChange") =
          IF state' # state
          THEN << Call("onStateChange", state', 0, FALSE) >>
          ELSE << >>]_vars

\* C22 witness: the first mouse-move of a drag has taken the tool from Drawing
\* to DraggingHandle, with one onStateChange(DraggingHandle)
C22_Witness ==
    /\ lastResult.op = "onMouseMove"
    /\ state = DraggingHandle
    /\ CallsOf(calls, "onStateChange") = << Call("onStateChange", DraggingHandle, 0, FALSE) >>
    /\ CallsOf(calls, "onPathModified") # << >>

\* C23: onPathModified is called when a path is modified: every operation of
\* PenTool (an event handler, reset, addPointToPath) that changes a path, be it
\* its anchors, their handles or its closed flag, invokes onPathModified with
\* the path that was changed.
C23_PathModifiedCallback ==
    [][lastResult'.op \in Handlers \cup {"addPointToPath"} =>
          \A id \in DOMAIN heap \cap DOMAIN heap' :
              heap'[id] # heap[id] =>
                  \E i \in 1..Len(calls') :
                      calls'[i] = Call("onPathModified", "", id, FALSE)]_vars

\* C23 witness: addPointToPath has put a 4th anchor into a path while the tool
\* has no current path, and no callback was invoked
C23_Witness ==
    /\ lastResult.op = "addPointToPath"
    /\ lastResult.error = "none"
    /\ currentPath = Null
    /\ Len(heap[lastResult.path].anchorPoints) = 4
    /\ calls = << >>

\* C26: closing by a click on the start point: when the tool has a current
\* path with at least one anchor, a mouse-down within closePathThreshold of the
\* first anchor of that path appends no anchor, applies closePath to the path and
\* leaves the tool Idle without a current path; the path is closed afterwards
\* iff it had at least 3 anchors.
C26_ClickOnStartCloses ==
    [][(/\ lastResult'.op = "onMouseDown"
        /\ currentPath # Null
        /\ Len(heap[currentPath[1]].anchorPoints) > 0
        /\ within(lastResult'.point, heap[currentPath[1]].anchorPoints[1].position,
                  closePathThreshold)) =>
          LET id == currentPath[1]
          IN  /\ id \in DOMAIN heap'
              /\ heap'[id].anchorPoints = heap[id].anchorPoints
              /\ heap'[id] = closePath(heap[id]).path
              /\ heap'[id].closed <=> Len(heap[id].anchorPoints) >= 3
              /\ state' = Idle
              /\ currentPath' = Null
              /\ paths' = paths]_vars

\* C26 witness: a click on the start point of a current path of 3 anchors or
\* more has closed it, and the tool is Idle
C26_Witness ==
    /\ lastResult.op = "onMouseDown"
    /\ state = Idle
    /\ currentPath = Null
    /\ \E id \in DOMAIN heap :
          /\ heap[id].closed
          /\ Len(heap[id].anchorPoints) >= 3
          /\ within(lastResult.point, heap[id].anchorPoints[1].position, closePathThreshold)
          /\ calls = << Call("onPathModified", "", id, FALSE),
                        Call("onStateChange", Idle, 0, FALSE) >>

\* a click on the start point of a current path of fewer than 3 anchors: the
\* path stays open and the tool is Idle
C26_TooShort ==
    /\ lastResult.op = "onMouseDown"
    /\ state = Idle
    /\ \E id \in DOMAIN heap :
          /\ ~heap[id].closed
          /\ Len(heap[id].anchorPoints) \in 1..2
          /\ calls = << Call("onPathModified", "", id, FALSE),
                        Call("onStateChange", Idle, 0, FALSE) >>

\* the paths of the collection a mouse-down at the position can resume: open,
\* not empty, with the first or the last anchor within closePathThreshold
Resumable(h, order, position) ==
    {id \in {order[i] : i \in 1..Len(order)} :
        /\ ~h[id].closed
        /\ Len(h[id].anchorPoints) > 0
        /\ \/ within(position, h[id].anchorPoints[1].position, closePathThreshold)
           \/ within(position, LastAnchor(h[id]).position, closePathThreshold)}

\* C27: continuing an existing path: a mouse-down on an Idle tool within
\* closePathThreshold of the first or last anchor of an open, non-empty path
\* makes such a path the current path and the state Drawing; no path is created,
\* no anchor is appended and no drag starts, so the mouse-up that follows adds
\* nothing.  Closed and empty paths are never resumed.  Otherwise exactly one
\* new empty path is created and becomes current.
C27_ContinueOrCreate ==
    [][/\ (lastResult'.op = "onMouseDown" /\ state = Idle) =>
             IF Resumable(heap, paths, lastResult'.point) # {}
             THEN /\ \E id \in Resumable(heap, paths, lastResult'.point) :
                        /\ currentPath' = Some(id)
                        /\ AnchorIds(heap'[id]) = AnchorIds(heap[id])
                        /\ Len(heap'[id].anchorPoints) = Len(heap[id].anchorPoints)
                        /\ \A other \in DOMAIN heap \ {id} :
                              other \in DOMAIN heap' /\ heap'[other] = heap[other]
                  /\ state' = Drawing
                  /\ paths' = paths
                  /\ nextId' = nextId
                  /\ DOMAIN heap' = DOMAIN heap
                  /\ ~isDragging'
                  /\ dragStartPoint' = Null
             ELSE /\ Len(paths') = Len(paths) + 1
                  /\ SubSeq(paths', 1, Len(paths)) = paths
                  /\ paths'[Len(paths')] \notin DOMAIN heap
                  /\ DOMAIN heap' = DOMAIN heap \cup {paths'[Len(paths')]}
                  /\ heap'[paths'[Len(paths')]].anchorPoints = << >>
                  /\ ~heap'[paths'[Len(paths')]].closed
                  /\ \A other \in DOMAIN heap : heap'[other] = heap[other]
                  /\ currentPath' = Some(paths'[Len(paths')])
                  /\ state' = Drawing
       /\ (lastResult.op = "onMouseDown" /\ ~isDragging /\ lastResult'.op = "onMouseUp") =>
             heap' = heap /\ paths' = paths /\ nextId' = nextId]_vars

\* C27 witness: the mouse-up after a mouse-down that resumed a path of the page
\* from its last anchor: the path is current, nothing was created or added
C27_Witness ==
    /\ lastResult.op = "onMouseUp"
    /\ state = Drawing
    /\ ~isDragging
    /\ nextId = 5
    /\ currentPath # Null
    /\ Len(heap[currentPath[1]].anchorPoints) = 3
    /\ within(lastResult.point, LastAnchor(heap[currentPath[1]]).position, closePathThreshold)
    /\ heap[currentPath[1]].anchorPoints[1].position = Pt(0, 0)

\* the four absolute control points of a segment; an end without a visible
\* handle has its control point on the anchor
ControlPoints(segment) ==
    LET p0 == segment.startPoint.position
        p3 == segment.endPoint.position
    IN  << p0,
           IF segment.controlPoint1 = Null THEN p0 ELSE segment.controlPoint1[1],
           IF segment.controlPoint2 = Null THEN p3 ELSE segment.controlPoint2[1],
           p3 >>

\* the segments of a path, each as its four control points
Geometry(path) == [i \in 1..Len(getSegments(path)) |-> ControlPoints(getSegments(path)[i])]

\* the same curve drawn from its other end: the segments in reverse order, each
\* (p0, c1, c2, p3) as (p3, c2, c1, p0)
Backwards(geometry) == [i \in 1..Len(geometry) |-> Reverse(Reverse(geometry)[i])]

\* does a mouse-down at the position on an Idle tool resume the path from its
\* first anchor
ResumesFromStart(path, position) ==
    /\ ~path.closed
    /\ Len(path.anchorPoints) > 0
    /\ within(position, path.anchorPoints[1].position, closePathThreshold)
    /\ ~within(position, LastAnchor(path).position, closePathThreshold)

\* C28: resuming an open path from its first anchor reverses its direction and
\* keeps its geometry: the anchors are in reverse order afterwards, and every
\* segment (p0, c1, c2, p3) the path had is the segment (p3, c2, c1, p0) now.
C28_ReversalKeepsGeometry ==
    [][(/\ lastResult'.op = "onMouseDown"
        /\ currentPath = Null
        /\ currentPath' # Null
        /\ currentPath'[1] \in DOMAIN heap
        /\ ResumesFromStart(heap[currentPath'[1]], lastResult'.point)) =>
          LET before == heap[currentPath'[1]]
              after == heap'[currentPath'[1]]
          IN  /\ [i \in 1..Len(after.anchorPoints) |-> after.anchorPoints[i].id]
                    = Reverse([i \in 1..Len(before.anchorPoints) |-> before.anchorPoints[i].id])
              /\ [i \in 1..Len(after.anchorPoints) |-> after.anchorPoints[i].position]
                    = Reverse([i \in 1..Len(before.anchorPoints) |->
                                   before.anchorPoints[i].position])
              /\ Geometry(after) = Backwards(Geometry(before))]_vars

\* C28 witness: a path with a curve has been resumed from its first anchor and
\* reversed
C28_Witness ==
    /\ lastResult.op = "onMouseDown"
    /\ state = Drawing
    /\ currentPath # Null
    /\ calls = << Call("onStateChange", Drawing, 0, FALSE),
                  Call("onPathModified", "", currentPath[1], FALSE) >>
    /\ \E i \in 1..Len(heap[currentPath[1]].anchorPoints) :
          shown(heap[currentPath[1]].anchorPoints[i].handleIn)
    /\ within(lastResult.point, LastAnchor(heap[currentPath[1]]).position, closePathThreshold)

\* the reversal of a path of straight segments keeps its geometry
C28_StraightReversalKeepsGeometry ==
    [][(/\ lastResult'.op = "onMouseDown"
        /\ currentPath = Null
        /\ currentPath' # Null
        /\ currentPath'[1] \in DOMAIN heap
        /\ ResumesFromStart(heap[currentPath'[1]], lastResult'.point)
        /\ \A i \in 1..Len(heap[currentPath'[1]].anchorPoints) :
              /\ ~shown(heap[currentPath'[1]].anchorPoints[i].handleIn)
              /\ ~shown(heap[currentPath'[1]].anchorPoints[i].handleOut)) =>
          Geometry(heap'[currentPath'[1]]) = Backwards(Geometry(heap[currentPath'[1]]))]_vars

\* C29: the state of PenTool and its current path agree in every reachable
\* state, for any sequence of mouse-down, mouse-move, mouse-up, key events and
\* reset: getState() is Idle iff getCurrentPath() is null, and the state is
\* never EditMode.
C29_StateAgreesWithCurrentPath ==
    /\ state = Idle <=> currentPath = Null
    /\ state # EditMode

\* C29 witness: the tool went back to Idle, without a current path, by a
\* mouse-down that closed the path it was drawing
C29_Witness ==
    /\ lastResult.op = "onMouseDown"
    /\ state = Idle
    /\ currentPath = Null
    /\ nextId = MaxId + 1
    /\ calls # << >>

\* C30: the drag bookkeeping of PenTool is consistent in every reachable state,
\* also when the events arrive out of order (two mouse-downs without a mouse-up,
\* a mouse-up without a mouse-down, Escape in the middle of a drag): isDragging
\* is true iff dragStartPoint is not null; the state is DraggingHandle iff
\* currentAnchorPoint is not null; and when currentAnchorPoint is not null,
\* isDragging is true and currentAnchorPoint is one of the anchors of the
\* current path.
C30_DragBookkeeping ==
    /\ isDragging <=> dragStartPoint # Null
    /\ state = DraggingHandle <=> currentAnchorPoint # Null
    /\ currentAnchorPoint # Null =>
          /\ isDragging
          /\ currentPath # Null
          /\ currentAnchorPoint[1] \in AnchorIds(heap[currentPath[1]])

\* C30 witness: a second mouse-down arrived in the middle of a drag, away from
\* the anchor being dragged
C30_Witness ==
    /\ lastResult.op = "onMouseDown"
    /\ state = DraggingHandle
    /\ currentAnchorPoint # Null
    /\ currentPath # Null
    /\ dragStartPoint = Some(lastResult.point)
    /\ LastAnchor(heap[currentPath[1]]).id = currentAnchorPoint[1]
    /\ LastAnchor(heap[currentPath[1]]).position # lastResult.point

\* C24: renderPaths renders again only the paths that were modified: for a
\* path that is as it was at the previous renderPaths call (anchors, handles,
\* closed flag) the call does not touch the path's element: no element is
\* created and no attribute is set; and after the call the paths layer holds no
\* element for a path id that is not in the manager.
C24_RenderPathsTouchesModifiedOnly ==
    [][lastResult'.op = "renderPaths" =>
          /\ \A id \in PathIds :
                (id \in DOMAIN rendered /\ rendered[id] = heap[id]) =>
                    /\ id \notin lastResult'.touched
                    /\ id \in DOMAIN pathsGroup' <=> id \in DOMAIN pathsGroup
                    /\ id \in DOMAIN pathsGroup => pathsGroup'[id] = pathsGroup[id]
          /\ DOMAIN pathsGroup' \subseteq PathIds]_vars

\* C24 witness: a renderPaths call after one of two paths was changed: the
\* changed path's element was written, the other path's element was not
C24_Witness ==
    /\ lastResult.op = "renderPaths"
    /\ lastResult.touched # {}
    /\ \E id \in PathIds : id \in DOMAIN pathsGroup /\ id \notin lastResult.touched

\* the events of the page that the component hands to PenTool or EditMode
PageEvents == {"onMouseDown", "onMouseMove", "onMouseUp", "onKeyDown", "onKeyUp"}

\* the renderer shows no interactive control element
NoControls(anchors, handles, preview) == anchors = {} /\ handles = {} /\ preview = {}

\* C25: view mode shows the paths without interactive control elements: from
\* the moment the component enters view mode until it leaves it, after every
\* action of the user (mouse and key events, deletePath, closeCurrentPath,
\* clearAllPaths) the anchor-point, handle and preview layers of the renderer
\* are empty, and no mouse or keyboard event reaches the pen tool.
C25_ViewModeShowsNoControls ==
    [][/\ mode' = "view" => NoControls(anchorPointsGroup', handlesGroup', previewGroup')
       /\ (mode = "view" /\ lastResult'.op \in PageEvents) =>
             /\ UNCHANGED << engine, tool >>
             /\ calls' = << >>]_vars

\* C25 witness: a path was deleted in view mode, and another path is still on
\* the page
C25_Witness ==
    /\ mode = "view"
    /\ lastResult.op = "deletePath"
    /\ paths # << >>
    /\ pathsGroup # << >>

\* the component enters view mode without control elements; in view mode the
\* events of the page leave the pen tool and the paths as they are, and no action
\* but deletePath brings a control element back
C25_ViewModeButDeletePath ==
    [][/\ (mode # "view" /\ mode' = "view") =>
             NoControls(anchorPointsGroup', handlesGroup', previewGroup')
       /\ (/\ mode = "view"
           /\ mode' = "view"
           /\ lastResult'.op # "deletePath"
           /\ NoControls(anchorPointsGroup, handlesGroup, previewGroup)) =>
             NoControls(anchorPointsGroup', handlesGroup', previewGroup')
       /\ (mode = "view" /\ lastResult'.op \in PageEvents) =>
             /\ UNCHANGED << engine, tool >>
             /\ calls' = << >>]_vars

\* C31: the pen tool never draws on a closed path: in every state reached by
\* the events of PenTool the current path, if there is one, is open, and once a
\* path is closed no mouse-down, mouse-move, mouse-up or key event appends an
\* anchor to it or changes its handles.
C31_NeverDrawsOnClosedPath ==
    [][/\ currentPath' # Null => ~heap'[currentPath'[1]].closed
       /\ \A id \in DOMAIN heap :
             heap[id].closed => id \in DOMAIN heap' /\ heap'[id] = heap[id]]_vars

\* C31 witness: a mouse-down on the first anchor of a closed path, with the
\* tool Idle, has started a new path and left the closed one alone
C31_Witness ==
    /\ lastResult.op = "onMouseDown"
    /\ currentPath # Null
    /\ heap[currentPath[1]].anchorPoints = << >>
    /\ \E id \in DOMAIN heap :
          /\ heap[id].closed
          /\ within(lastResult.point, heap[id].anchorPoints[1].position, closePathThreshold)

\* C32: in the example component, after any sequence of actions of the user
\* (mouse and key events, toggleMode, setViewMode, clearAllPaths,
\* closeCurrentPath, deletePath) the current path of the pen tool is null or a
\* path of the PathManager's collection, so that no anchor is added to a path
\* that was removed.
C32_CurrentPathIsInCollection ==
    currentPath # Null => currentPath[1] \in PathIds

\* C32 witness: a path was deleted in pen mode while the pen tool was drawing
C32_Witness ==
    /\ mode = "pen"
    /\ lastResult.op = "deletePath"
    /\ currentPath # Null
    /\ state = Drawing

\* an anchor is added to a path that is not in the collection
C32_AnchorAddedToRemovedPath ==
    /\ lastResult.op \in {"onMouseMove", "onMouseUp"}
    /\ currentPath # Null
    /\ currentPath[1] \notin PathIds
    /\ \E i \in 1..Len(calls) : calls[i] = Call("onPathModified", "", currentPath[1], FALSE)
    /\ nextId = MaxId + 1

\* every action of the component but deletePath keeps the current path in the
\* collection
C32_ButDeletePath ==
    [][(/\ lastResult'.op # "deletePath"
        /\ C32_CurrentPathIsInCollection) => C32_CurrentPathIsInCollection']_vars

\* C33: after SvgPathRenderer.update(pathManager) the paths layer holds, for
\* every path of the manager, one element, and its d attribute is
\* toSVGPath(path), whatever was done to the anchors and handles of the paths
\* between two update calls.
C33_UpdateShowsEveryPath ==
    [][lastResult'.op = "update" =>
          \A id \in PathIds :
              /\ id \in DOMAIN pathsGroup'
              /\ pathsGroup'[id] = toSVGPath(heap[id])]_vars

\* C33 witness: an update after a path lost all its anchors: the element of the
\* path still has path data
C33_Witness ==
    /\ lastResult.op = "update"
    /\ \E id \in PathIds :
          /\ heap[id].anchorPoints = << >>
          /\ id \in DOMAIN pathsGroup
          /\ pathsGroup[id] # << >>

\* after update every path that has path data and an element shows its path
\* data: there is no change of a path of the page that keeps its version
C33_NoStaleVersion ==
    [][lastResult'.op = "update" =>
          \A id \in PathIds :
              (toSVGPath(heap[id]) # << >> /\ id \in DOMAIN pathsGroup') =>
                  pathsGroup'[id] = toSVGPath(heap[id])]_vars

\* after update every path that has path data has an element
C33_NonEmptyPathsHaveElements ==
    [][lastResult'.op = "update" =>
          \A id \in PathIds : toSVGPath(heap[id]) # << >> => id \in DOMAIN pathsGroup']_vars

\* C34: clear() followed by update(pathManager) shows all paths again: after
\* any sequence of update and clear calls that ends with update, every path of
\* the manager that has path data has an element in the paths layer, also when
\* the path did not change between the clear and the update.
C34_UpdateAfterClearShowsPaths ==
    [][lastResult'.op = "update" =>
          \A id \in PathIds :
              heap[id].anchorPoints # << >> =>
                  /\ toSVGPath(heap[id]) # << >>
                  /\ id \in DOMAIN pathsGroup']_vars

\* C34 witness: an update right after a clear: a path that has path data, and
\* is as it was rendered before the clear, has no element
C34_Witness ==
    /\ lastResult.op = "update"
    /\ \E id \in PathIds :
          /\ toSVGPath(heap[id]) # << >>
          /\ id \in DOMAIN pathVersions
          /\ pathVersions[id] = getPathVersion(heap[id])
          /\ id \notin DOMAIN pathsGroup

\* a path that was changed after the clear is shown again by update
C34_ChangedPathsComeBack ==
    [][lastResult'.op = "update" =>
          \A id \in PathIds :
              (/\ toSVGPath(heap[id]) # << >>
               /\ id \in DOMAIN pathVersions => pathVersions[id] # getPathVersion(heap[id])) =>
                  id \in DOMAIN pathsGroup']_vars

\* the close-path indicator is in the preview layer
IndicatorShown(preview) == \E e \in preview : e.kind = "close-path-indicator"

\* C35: in the example component, after a mouse-move in pen mode with the tool
\* in Drawing state and the cursor within closePathThreshold of the first anchor
\* of the current path, the close-path indicator is in the SVG, at the position
\* of that anchor; after a mouse-move outside the threshold it is not.
C35_CloseIndicatorFollowsCursor ==
    [][(/\ lastResult'.op = "onMouseMove"
        /\ mode = "pen"
        /\ state = Drawing
        /\ currentPath # Null
        /\ heap[currentPath[1]].anchorPoints # << >>) =>
          LET first == heap[currentPath[1]].anchorPoints[1].position
          IN  IF within(lastResult'.point, first, closePathThreshold)
              THEN Element("close-path-indicator", first) \in previewGroup'
              ELSE ~IndicatorShown(previewGroup')]_vars

\* C35 witness: the cursor has moved onto the first anchor of the path being
\* drawn, no button pressed, and the preview layer holds the preview line alone
C35_Witness ==
    /\ lastResult.op = "onMouseMove"
    /\ mode = "pen"
    /\ state = Drawing
    /\ ~isDragging
    /\ currentPath # Null
    /\ Len(heap[currentPath[1]].anchorPoints) >= 3
    /\ within(lastResult.point, heap[currentPath[1]].anchorPoints[1].position,
              closePathThreshold)
    /\ calls = << Call("onClosePathHover", "", 0, TRUE) >>
    /\ previewGroup = {Element("line", lastResult.point)}

\* the indicator is right after the mouse-moves of a drag, where the component
\* draws no preview, and it is never shown away from the first anchor
C35_IndicatorWhileDragging ==
    [][(/\ lastResult'.op = "onMouseMove"
        /\ mode = "pen"
        /\ currentPath # Null
        /\ heap[currentPath[1]].anchorPoints # << >>) =>
          LET first == heap[currentPath[1]].anchorPoints[1].position
          IN  /\ state' = DraggingHandle =>
                    IF within(lastResult'.point, first, closePathThreshold)
                    THEN Element("close-path-indicator", first) \in previewGroup'
                    ELSE ~IndicatorShown(previewGroup')
              /\ ~within(lastResult'.point, first, closePathThreshold) =>
                    ~IndicatorShown(previewGroup')]_vars

\* the endpoints of the visible handles of an anchor: position + handle.position
VisibleHandles(a) ==
    {Endpoint(a, add(a.position, h[1].position)) :
        h \in {h \in {a.handleIn, a.handleOut} : shown(h)}}

\* the endpoints of one anchor among those drawn
EndpointsOf(drawn, a) == {e \in drawn : e.anchor = a.id}

\* C36: for every anchor whose handles are shown, CanvasPathRenderer draws a
\* handle endpoint at exactly the positions where SvgPathRenderer draws one:
\* position + handleIn.position for a visible handleIn, position +
\* handleOut.position for a visible handleOut, also when the anchor has only
\* one of the two handles.
C36_RenderersDrawSameHandles ==
    [][lastResult'.op = "renderHandles" =>
          \A a \in showHandles(heap, paths, lastResult'.currentDrawingPath, showAllHandles) :
              /\ EndpointsOf(lastResult'.svg, a) = VisibleHandles(a)
              /\ EndpointsOf(lastResult'.canvas, a) = EndpointsOf(lastResult'.svg, a)]_vars

\* C36 witness: an anchor whose handles are shown has one visible handle; the
\* SVG renderer has drawn its endpoint and the canvas renderer has drawn
\* nothing for the anchor
C36_Witness ==
    /\ lastResult.op = "renderHandles"
    /\ \E a \in showHandles(heap, paths, lastResult.currentDrawingPath, showAllHandles) :
          /\ shown(a.handleOut)
          /\ ~shown(a.handleIn)
          /\ EndpointsOf(lastResult.svg, a)
                 = {Endpoint(a, add(a.position, a.handleOut[1].position))}
          /\ EndpointsOf(lastResult.canvas, a) = {}

\* the SVG renderer draws the endpoints the claim names, for every anchor; the
\* canvas renderer draws the same for the anchors whose two handles are both
\* visible or both not, and never an endpoint the SVG renderer does not draw
C36_SameForBothOrNone ==
    [][lastResult'.op = "renderHandles" =>
          /\ lastResult'.canvas \subseteq lastResult'.svg
          /\ \A a \in showHandles(heap, paths, lastResult'.currentDrawingPath,
                                   showAllHandles) :
                /\ EndpointsOf(lastResult'.svg, a) = VisibleHandles(a)
                /\ shown(a.handleIn) = shown(a.handleOut) =>
                      EndpointsOf(lastResult'.canvas, a) = VisibleHandles(a)
                /\ shown(a.handleIn) # shown(a.handleOut) =>
                      EndpointsOf(lastResult'.canvas, a) = {}]_vars

\* a segment the loop of renderPath has a call for
Drawable(segment) ==
    \/ segment.type = "line"
    \/ segment.controlPoint1 # Null /\ segment.controlPoint2 # Null

\* the calls that follow moveTo are one per segment: lineTo for a line,
\* bezierCurveTo for a cubic, each ending at the end anchor of its segment
OnePerSegment(drawn, segments) ==
    /\ Len(drawn) = Len(segments) + 1
    /\ \A i \in 1..Len(segments) :
          /\ drawn[i + 1].cmd =
                IF segments[i].type = "line" THEN "lineTo" ELSE "bezierCurveTo"
          /\ drawn[i + 1].point = segments[i].endPoint.position

\* C37: CanvasPathRenderer.renderPath draws every segment of the path: for each
\* segment of getSegments there is exactly one drawing call ending at the end
\* anchor of the segment, lineTo for a line and bezierCurveTo for a cubic, also
\* for a cubic segment that has only one of the two control points.
C37_CanvasDrawsEverySegment ==
    [][lastResult'.op = "canvasRenderPaths" =>
          \A id \in PathIds :
              getSegments(heap[id]) # << >> =>
                  OnePerSegment(lastResult'.drawn[id], getSegments(heap[id]))]_vars

\* C37 witness: the first segment of a path is cubic with one control point,
\* and the calls go from the first anchor straight to the end of the second
\* segment
C37_Witness ==
    /\ lastResult.op = "canvasRenderPaths"
    /\ \E id \in PathIds :
          LET segments == getSegments(heap[id])
              drawn == lastResult.drawn[id]
          IN  /\ Len(segments) >= 2
              /\ segments[1].type = "cubic"
              /\ segments[1].controlPoint1 # Null
              /\ segments[1].controlPoint2 = Null
              /\ Drawable(segments[2])
              /\ drawn[1] = Command("moveTo", Null, Null,
                                    segments[1].startPoint.position)
              /\ drawn[2].point = segments[2].endPoint.position
              /\ \A i \in 1..Len(drawn) : drawn[i].point # segments[1].endPoint.position

\* the rest holds: a path whose segments are lines or cubics with both control
\* points is drawn whole, with the control points of getSegments; in every
\* path the calls after moveTo are those of the segments that are lines or
\* have both control points, in order
C37_DrawsLinesAndFullCubics ==
    [][lastResult'.op = "canvasRenderPaths" =>
          \A id \in PathIds :
              LET segments == getSegments(heap[id])
                  drawn == lastResult'.drawn[id]
                  kept == SelectSeq(segments, Drawable)
              IN  /\ segments = << >> => drawn = << >>
                  /\ segments # << >> =>
                        /\ drawn[1] = Command("moveTo", Null, Null,
                                              heap[id].anchorPoints[1].position)
                        /\ OnePerSegment(drawn, kept)
                        /\ \A i \in 1..Len(kept) :
                              /\ drawn[i + 1].controlPoint1 = kept[i].controlPoint1
                              /\ drawn[i + 1].controlPoint2 = kept[i].controlPoint2
                  /\ (\A i \in 1..Len(segments) : Drawable(segments[i])) =>
                        (segments # << >> => OnePerSegment(drawn, segments))]_vars

====
